---- MODULE Spec2Model ----
(***************************************************************************)
(* A model of the text extraction pipeline of danish-dictionary-parser:    *)
(*   - ForEachText (walk_text.rs): the iterator that interprets a page's   *)
(*     drawing instructions into text entries,                             *)
(*   - TextStateParams / TextMatrices (text_parser.rs),                    *)
(*   - the line loop of process_page (main.rs) that consumes the iterator, *)
(*   - make_unicode_map / decode_pdf_string (decode_pdf_string.rs).        *)
(*                                                                         *)
(* Conventions.  Option<T> is a sequence of length at most one: <<>> is    *)
(* None and <<v>> is Some(v).  f32 values are modelled by integers (all    *)
(* values used are small integers, which f32 represents exactly).  A       *)
(* Unicode string is the sequence of its code points.                      *)
(***************************************************************************)
EXTENDS Integers, Sequences, FiniteSets, TLC

VARIABLES
    \* ---- ForEachText (walk_text.rs:13-18)
    operations,                 \* the instructions not yet taken from the IntoIter
    params,                     \* TextStateParams
    positions,                  \* Option<TextMatrices>
    text_draw_adjusted_array,   \* Option<(TextMatrices, Name, IntoIter<TextDrawAdjusted>)>
    \* ---- control: where ForEachText::next stands between two steps
    mode,                       \* "ops" | "array" | "done" | "failed" | "panicked" | "off"
    \* ---- process_page (main.rs:223-243)
    skipping,                   \* skip_while has not yet yielded an item
    last_y,                     \* <<>> is f32::INFINITY
    lines,
    \* ---- the driver of the iterator and what it has seen
    consumer,                   \* "process_page" | "drain"
    page,                       \* the page's instruction list, as given to each_text
    items,                      \* every item next() has returned so far
    \* ---- font resolution and string decoding (decode_pdf_string.rs)
    font,                       \* the font descriptor
    raw,                        \* the bytes of a PdfString
    fpc,                        \* "start" | "resolved" | "decoded" | "off"
    resolved,                   \* result of make_unicode_map
    decoded,                    \* result of decode_pdf_string, collected
    \* ---- not_indented (main.rs:312-321)
    first_entry,                \* the TextEntry given to not_indented
    indentation,                \* Option of its result
    \* ---- get_words (main.rs:184-215)
    doc,                        \* the process_page result of every page, as given
    pages,                      \* the pages the outer loop has not taken yet
    page_lines,                 \* the lines of the current page not yet taken
    seen,                       \* every line the loop body has been run on
    words,                      \* Vec<String>
    wpc,                        \* "pages" | "lines" | "done" | "failed" | "orphan" | "off"
    \* ---- parse_dictionary (parse_dictionary.rs:5-220)
    entry_strings,              \* words: &[String], as given
    unparsed,                   \* the words the loop has not taken yet
    outcomes,                   \* what the loop did with each word it took
    ppc,                        \* "run" | "done" | "failed" | "panicked" | "off"
    \* ---- patch (parse_dictionary.rs:265-331)
    patch_arg,                  \* the string patch is applied to
    patch_results,              \* patch of it, then patch of that
    \* ---- Operator::try_from (operator.rs:170-319)
    operation,                  \* Option of the PdfOperation given
    converted                   \* Option of the Result returned

vars == <<operations, params, positions, text_draw_adjusted_array, mode,
          skipping, last_y, lines, consumer, page, items,
          font, raw, fpc, resolved, decoded,
          first_entry, indentation, doc, pages, page_lines, seen, words, wpc,
          entry_strings, unparsed, outcomes, ppc, patch_arg, patch_results,
         operation, converted>>

textVars == <<operations, params, positions, text_draw_adjusted_array, mode,
              skipping, last_y, lines, consumer, page, items>>

fontVars == <<font, raw, fpc, resolved, decoded>>

wordVars == <<first_entry, indentation, doc, pages, page_lines, seen, words, wpc>>

dictVars == <<entry_strings, unparsed, outcomes, ppc, patch_arg, patch_results>>

operatorVars == <<operation, converted>>

\* ------------------------------------------------- the parts not running

\* no page is being read
TextOff ==
    /\ page = <<>>
    /\ operations = <<>>
    /\ params = <<>>
    /\ positions = <<>>
    /\ text_draw_adjusted_array = <<>>
    /\ mode = "off"
    /\ skipping = TRUE
    /\ last_y = <<>>
    /\ lines = <<>>
    /\ consumer = "process_page"
    /\ items = <<>>

\* no font is being resolved
FontOff ==
    /\ font = <<>>
    /\ raw = <<>>
    /\ fpc = "off"
    /\ resolved = <<>>
    /\ decoded = <<>>

\* no line is being classified and no entry collected
WordsOff ==
    /\ first_entry = <<>>
    /\ indentation = <<>>
    /\ doc = <<>>
    /\ pages = <<>>
    /\ page_lines = <<>>
    /\ seen = <<>>
    /\ words = <<>>
    /\ wpc = "off"

\* no entry string is being parsed or patched
DictOff ==
    /\ entry_strings = <<>>
    /\ unparsed = <<>>
    /\ outcomes = <<>>
    /\ ppc = "off"
    /\ patch_arg = <<>>
    /\ patch_results = <<>>

\* no operation is being converted
OperatorOff ==
    /\ operation = <<>>
    /\ converted = <<>>

\* ------------------------------------------------------------------ bounds

\* longest instruction list drawn for a page
MaxOps == 3

\* longest instruction list drawn after an opening
MaxTail == 2

\* most runs on a page of runs
MaxRuns == 3

\* ---------------------------------------------------------------- Option

None == <<>>
Some(v) == <<v>>

\* ------------------------------------------------- text_parser.rs: matrices

\* Matrix3::new takes its nine arguments row by row.
Matrix3(a, b, c, d, e, f, g, h, i) == <<<<a, b, c>>, <<d, e, f>>, <<g, h, i>>>>

Matrix3_identity == Matrix3(1, 0, 0, 0, 1, 0, 0, 0, 1)

\* the product A * B
MatMul(A, B) ==
    [r \in 1..3 |-> [c \in 1..3 |->
        A[r][1] * B[1][c] + A[r][2] * B[2][c] + A[r][3] * B[3][c]]]

TextMatrices_default ==
    [text_matrix |-> Matrix3_identity, text_line_matrix |-> Matrix3_identity]

\* a next_line that forgets to copy the line matrix into the text matrix
next_line_NoCopy(self, t) ==
    [self EXCEPT !.text_line_matrix =
        MatMul(Matrix3(1, 0, 0, 0, 1, 0, t.x, t.y, 1), self.text_line_matrix)]

next_line(self, t) ==
    LET tlm == MatMul(Matrix3(1, 0, 0, 0, 1, 0, t.x, t.y, 1), self.text_line_matrix)
    IN  [text_matrix |-> tlm, text_line_matrix |-> tlm]

set_matrix(self, m) ==
    LET tlm == Matrix3(m.a, m.b, 0, m.c, m.d, 0, m.e, m.f, 1)
    IN  [text_matrix |-> tlm, text_line_matrix |-> tlm]

\* The position of a text entry: the translation part of its text matrix.
coordinates(self) == [x |-> self.text_matrix[3][1], y |-> self.text_matrix[3][2]]

\* ------------------------------------------- text_parser.rs: TextStateParams

TextStateParams_default ==
    [character_spacing |-> 0, word_spacing |-> 0, horizontal_scaling |-> 100,
     leading |-> 0, font |-> None, rendering_mode |-> "Fill", rise |-> 0]

set_font(self, name, size) == [self EXCEPT !.font = Some(<<name, size>>)]

\* ------------------------------------------------------ the instructions

BeginText == [op |-> "BeginText"]
EndText == [op |-> "EndText"]
TextFont(name, size) == [op |-> "TextFont", name |-> name, size |-> size]
MoveTextPosition(x, y) == [op |-> "MoveTextPosition", translation |-> [x |-> x, y |-> y]]
SetTextMatrix(a, b, c, d, e, f) ==
    [op |-> "SetTextMatrix", matrix |-> [a |-> a, b |-> b, c |-> c, d |-> d, e |-> e, f |-> f]]
TextDraw(text) == [op |-> "TextDraw", text |-> text]
TextDrawAdjusted(array) == [op |-> "TextDrawAdjusted", array |-> array]

\* the sub-elements of a TextDrawAdjusted array
AdjText(text) == [kind |-> "Text", text |-> text]
AdjSpacing(v) == [kind |-> "Spacing", v |-> v]

Arrays ==
    { <<AdjSpacing(-50)>>,
      <<AdjText("a"), AdjSpacing(-50), AdjText("b")>>,
      <<AdjText("a"), AdjText("b"), AdjText("c"), AdjText("d")>> }

\* the instructions a drawn page is made of
Ops ==
    { [op |-> "CharSpacing", char_space |-> 1],
      [op |-> "WordSpacing", word_space |-> 1],
      [op |-> "TextScaling", horiz_scale |-> 50],
      [op |-> "Leading", leading |-> 1],
      [op |-> "TextRenderMode", mode |-> "Stroke"],
      [op |-> "TextRise", rise |-> 1],
      TextFont("F1", 12), TextFont("F2", 9),
      BeginText, EndText,
      MoveTextPosition(10, 60),
      SetTextMatrix(2, 0, 0, 2, 5, 40),
      TextDraw("hund"),
      [op |-> "TextNewline"] }
    \cup { TextDrawAdjusted(a) : a \in Arrays }

\* the parameters of the five-instruction page
\*   begin-text, set-font(F, s), move-text-position(x, y), show-text(t), end-text
FontKeys == {"F1", "F2"}
Sizes == {9, 12}
Coords == {0, 10, 700}
Texts == {"hund", "a"}

SimplePage(F, s, x, y, t) ==
    <<BeginText, TextFont(F, s), MoveTextPosition(x, y), TextDraw(t), EndText>>

\* the instruction lists of at most n instructions
Lists(n) == UNION { [1..k -> Ops] : k \in 0..n }

\* how a longer page starts: with a font set and a text object open, or with a
\* whole text object that draws one run above the header band
Openings ==
    { <<TextFont("F1", 12), BeginText>>,
      <<TextFont("F1", 12), BeginText, MoveTextPosition(10, 60), TextDraw("hund"), EndText>> }

\* The pages drawn: the lists of at most MaxOps instructions, an opening followed
\* by at most MaxTail instructions, and the five-instruction pages.
Pages ==
    Lists(MaxOps)
    \cup { o \o p : o \in Openings, p \in Lists(MaxTail) }
    \cup { SimplePage(F, s, x, y, t) :
             F \in FontKeys, s \in Sizes, x \in Coords, y \in Coords, t \in Texts }

\* the baselines of the runs of a page of runs: in and just above the header band,
\* and around a drop of LineGap from 100
RunYs == {40, 50, 51, 80, 91, 92, 95, 100}

\* one run at baseline y:  1 0 0 1 10 y Tm  (hund) Tj
RunOps(y) == <<SetTextMatrix(1, 0, 0, 1, 10, y), TextDraw("hund")>>

RECURSIVE RunsOps(_)
RunsOps(ys) == IF ys = <<>> THEN <<>> ELSE RunOps(Head(ys)) \o RunsOps(Tail(ys))

\* a page that sets a font, opens a text object and draws one run per baseline
RunPage(ys) == <<TextFont("F1", 12), BeginText>> \o RunsOps(ys)

\* the pages of at most MaxRuns runs
RunPages == { RunPage(ys) : ys \in UNION { [1..k -> RunYs] : k \in 0..MaxRuns } }

\* ------------------------------------------------------- walk_text.rs

TextEntry(pos, fnt, text) ==
    [kind |-> "Ok", positions |-> pos, font |-> fnt, text |-> text]
Err(msg) == [kind |-> "Err", msg |-> msg]

\* An item as the driver records it: with the number of instructions taken from
\* the page when next() returned it.
Recorded(item, at) ==
    IF item.kind = "Ok"
    THEN [kind |-> "Ok", positions |-> item.positions, font |-> item.font,
          text |-> item.text, at |-> at]
    ELSE [kind |-> "Err", msg |-> item.msg, at |-> at]

\* for a in array { if let Text(text) = a { return ... } }: what is left of the
\* array once the leading non-text elements are taken.
RECURSIVE SkipToText(_)
SkipToText(array) ==
    IF array = <<>> THEN <<>>
    ELSE IF Head(array).kind = "Text" THEN array
    ELSE SkipToText(Tail(array))

\* What one iteration of `for op in &mut self.operations` leaves behind: the
\* fields, and what the match arm does next:
\*   ret = Some(item): return Some(item)
\*   again = TRUE:     return self.next()
\*   otherwise:        the loop goes on.
Continue(prm, pos) ==
    [params |-> prm, positions |-> pos, tda |-> None, ret |-> None, again |-> FALSE]
Return(prm, pos, item) ==
    [params |-> prm, positions |-> pos, tda |-> None, ret |-> Some(item), again |-> FALSE]
Recurse(prm, pos, tda) ==
    [params |-> prm, positions |-> pos, tda |-> Some(tda), ret |-> None, again |-> TRUE]

\* a begin-text that keeps the matrices of a text object that is already open
ArmBeginText_KeepOpen(prm, pos) ==
    Continue(prm, IF pos = None THEN Some(TextMatrices_default) ELSE pos)

\* Op::BeginText
ArmBeginText(prm, pos) == Continue(prm, Some(TextMatrices_default))

\* an end-text that forgets the font with the text object
ArmEndText_ForgetFont(prm, pos) == Continue([prm EXCEPT !.font = None], None)

\* Op::EndText
ArmEndText(prm, pos) == Continue(prm, None)

\* a move that opens a text object when none is open
ArmMoveTextPosition_AutoBegin(prm, pos, translation) ==
    Continue(prm, Some(next_line(IF pos = None THEN TextMatrices_default ELSE pos[1],
                                 translation)))

\* Op::MoveTextPosition { translation }
ArmMoveTextPosition(prm, pos, translation) ==
    IF pos = None THEN Return(prm, pos, Err("BT not present before Td/TD"))
    ELSE Continue(prm, Some(next_line(pos[1], translation)))

\* Op::SetTextMatrix { matrix }
ArmSetTextMatrix(prm, pos, matrix) ==
    IF pos = None THEN Return(prm, pos, Err("BT not present before Tm"))
    ELSE Continue(prm, Some(set_matrix(pos[1], matrix)))

\* Op::TextDraw { text }
ArmTextDraw(prm, pos, text) ==
    IF pos = None THEN Return(prm, pos, Err("BT not preset beefore Tj"))
    ELSE IF prm.font = None THEN Return(prm, pos, Err("Tf not present before Tj"))
    ELSE Return(prm, pos, TextEntry(pos[1], prm.font[1][1], text))

\* Op::TextDrawAdjusted { array }
ArmTextDrawAdjusted(prm, pos, array) ==
    IF pos = None THEN Return(prm, pos, Err("BT not preset beefore Tj"))
    ELSE IF prm.font = None THEN Return(prm, pos, Err("Tf not present before Tj"))
    ELSE Recurse(prm, pos, [positions |-> pos[1], font |-> prm.font[1][1], array |-> array])

\* the match of walk_text.rs:53-117
MatchOp(op, prm, pos) ==
    CASE op.op = "CharSpacing" -> Continue([prm EXCEPT !.character_spacing = op.char_space], pos)
      [] op.op = "WordSpacing" -> Continue([prm EXCEPT !.word_spacing = op.word_space], pos)
      [] op.op = "TextScaling" -> Continue([prm EXCEPT !.horizontal_scaling = op.horiz_scale], pos)
      [] op.op = "Leading" -> Continue([prm EXCEPT !.leading = op.leading], pos)
      [] op.op = "TextFont" -> Continue(set_font(prm, op.name, op.size), pos)
      [] op.op = "TextRenderMode" -> Continue([prm EXCEPT !.rendering_mode = op.mode], pos)
      [] op.op = "TextRise" -> Continue([prm EXCEPT !.rise = op.rise], pos)
      [] op.op = "BeginText" -> ArmBeginText(prm, pos)
      [] op.op = "EndText" -> ArmEndText(prm, pos)
      [] op.op = "MoveTextPosition" -> ArmMoveTextPosition(prm, pos, op.translation)
      [] op.op = "SetTextMatrix" -> ArmSetTextMatrix(prm, pos, op.matrix)
      [] op.op = "TextDraw" -> ArmTextDraw(prm, pos, op.text)
      [] op.op = "TextDrawAdjusted" -> ArmTextDrawAdjusted(prm, pos, op.array)
      [] OTHER -> Continue(prm, pos)

\* --------------------------------------------- main.rs: process_page's loop

\* the header band of skip_while
HeaderCutoff == 50
\* the smallest drop of the baseline that starts a new line
LineGap == 8

\* a header filter that drops every run of the band, wherever it stands
ProcessPageItem_Filter(item, skip, ly, ls) ==
    IF item.kind = "Err"
    THEN [skipping |-> FALSE, last_y |-> ly, lines |-> <<>>, stop |-> "failed"]
    ELSE LET p == coordinates(item.positions) IN
         IF p.y <= HeaderCutoff
         THEN [skipping |-> skip, last_y |-> ly, lines |-> ls, stop |-> "no"]
         ELSE IF ly = None \/ p.y < ly[1] - LineGap
              THEN [skipping |-> FALSE, last_y |-> Some(p.y), lines |-> Append(ls, <<item>>),
                    stop |-> "no"]
         ELSE IF ls = <<>>
              THEN [skipping |-> FALSE, last_y |-> ly, lines |-> <<>>, stop |-> "panicked"]
         ELSE [skipping |-> FALSE, last_y |-> ly,
               lines |-> [ls EXCEPT ![Len(ls)] = Append(@, item)], stop |-> "no"]

\* a line loop that moves last_y with every run
ProcessPageItem_Follow(item, skip, ly, ls) ==
    IF item.kind = "Err"
    THEN [skipping |-> FALSE, last_y |-> ly, lines |-> <<>>, stop |-> "failed"]
    ELSE LET p == coordinates(item.positions) IN
         IF skip /\ p.y <= HeaderCutoff
         THEN [skipping |-> TRUE, last_y |-> ly, lines |-> ls, stop |-> "no"]
         ELSE IF ly = None \/ p.y < ly[1] - LineGap
              THEN [skipping |-> FALSE, last_y |-> Some(p.y), lines |-> Append(ls, <<item>>),
                    stop |-> "no"]
         ELSE [skipping |-> FALSE, last_y |-> Some(p.y),
               lines |-> [ls EXCEPT ![Len(ls)] = Append(@, item)], stop |-> "no"]

\* a loop that drops an error item and goes on
ProcessPageItem_SkipErr(item, skip, ly, ls) ==
    IF item.kind = "Err"
    THEN [skipping |-> skip, last_y |-> ly, lines |-> ls, stop |-> "no"]
    ELSE [skipping |-> FALSE, last_y |-> ly, lines |-> Append(ls, <<item>>), stop |-> "no"]

\* One item of each_text(..).skip_while(..) in the loop of main.rs:226-241.
\* failed: `entry?` returned the error from process_page, whose lines are dropped;
\* panicked: lines.last_mut().expect(..) found no line.
ProcessPageItem(item, skip, ly, ls) ==
    LET stay(s, y, l) == [skipping |-> s, last_y |-> y, lines |-> l, stop |-> "no"]
    IN
    IF item.kind = "Err"
    THEN [skipping |-> FALSE, last_y |-> ly, lines |-> <<>>, stop |-> "failed"]
    ELSE LET p == coordinates(item.positions) IN
         IF skip /\ p.y <= HeaderCutoff THEN stay(TRUE, ly, ls)
         ELSE IF ly = None \/ p.y < ly[1] - LineGap
              THEN stay(FALSE, Some(p.y), Append(ls, <<item>>))
         ELSE IF ls = <<>>
              THEN [skipping |-> FALSE, last_y |-> ly, lines |-> <<>>, stop |-> "panicked"]
         ELSE stay(FALSE, ly, [ls EXCEPT ![Len(ls)] = Append(@, item)])

\* ------------------------------------------------------------- the steps

\* the number of instructions taken from the page so far
consumed == Len(page) - Len(operations)

\* next() returns Some(item) to its caller; `then` is where the following call of
\* next() starts.
Deliver(item, at, then) ==
    /\ items' = Append(items, Recorded(item, at))
    /\ IF consumer = "process_page"
       THEN LET c == ProcessPageItem(item, skipping, last_y, lines) IN
            /\ skipping' = c.skipping
            /\ last_y' = c.last_y
            /\ lines' = c.lines
            /\ mode' = IF c.stop = "no" THEN then ELSE c.stop
       ELSE /\ mode' = then
            /\ UNCHANGED <<skipping, last_y, lines>>

\* an array iterator that is emptied by the first element it hands out
AdvanceArray_Reset(rest) == <<>>

\* an array iterator that hands out the same element again
AdvanceArray_Stuck(rest) == rest

\* the element the array iterator hands out next is no longer in it
AdvanceArray(rest) == Tail(rest)

\* walk_text.rs:40-51: next() while an adjusted array is being handed out.
ArrayStep ==
    /\ mode = "array"
    /\ LET tda == text_draw_adjusted_array[1]
           rest == SkipToText(tda.array)
       IN  IF rest = <<>>
           THEN /\ text_draw_adjusted_array' = None
                /\ mode' = "ops"
                /\ UNCHANGED <<skipping, last_y, lines, items>>
           ELSE /\ text_draw_adjusted_array' = Some([tda EXCEPT !.array = AdvanceArray(rest)])
                /\ Deliver(TextEntry(tda.positions, tda.font, Head(rest).text),
                           consumed, "array")
    /\ UNCHANGED <<operations, params, positions, consumer, page>>
    /\ UNCHANGED <<fontVars, wordVars, dictVars, operatorVars>>

\* walk_text.rs:52-119: one iteration of the loop over the instructions, up to
\* the next iteration, or to the return of next() and its caller's handling.
OpStep ==
    /\ mode = "ops"
    /\ IF operations = <<>>
       THEN /\ mode' = "done"
            /\ UNCHANGED <<operations, params, positions, text_draw_adjusted_array,
                           skipping, last_y, lines, items>>
       ELSE LET r == MatchOp(Head(operations), params, positions) IN
            /\ operations' = Tail(operations)
            /\ params' = r.params
            /\ positions' = r.positions
            /\ text_draw_adjusted_array' = r.tda
            /\ IF r.again
               THEN /\ mode' = "array"
                    /\ UNCHANGED <<skipping, last_y, lines, items>>
               ELSE IF r.ret = None
               THEN /\ mode' = "ops"
                    /\ UNCHANGED <<skipping, last_y, lines, items>>
               ELSE Deliver(r.ret[1], consumed + 1, "ops")
    /\ UNCHANGED <<consumer, page>>
    /\ UNCHANGED <<fontVars, wordVars, dictVars, operatorVars>>

\* each_text (walk_text.rs:20-34) on a page, driven by `driver`
InitText(driver, from) ==
    /\ page \in from
    /\ operations = page
    /\ params = TextStateParams_default
    /\ positions = None
    /\ text_draw_adjusted_array = None
    /\ mode = "ops"
    /\ skipping = TRUE
    /\ last_y = None
    /\ lines = <<>>
    /\ consumer = driver
    /\ items = <<>>
    /\ FontOff
    /\ WordsOff
    /\ DictOff
    /\ OperatorOff

Init == InitText("process_page", Pages \cup RunPages)

Next == OpStep \/ ArrayStep

\* process_page reading a page
Spec == Init /\ [][Next]_vars

InitIter == InitText("drain", Pages)

\* next() called until it returns None
SpecIter == InitIter /\ [][Next]_vars /\ WF_vars(Next)

\* ------------------------------------------------ decode_pdf_string.rs

\* A HashMap<u16, String> from its (code, string) pairs.
HashMapOf(pairs) ==
    [c \in { p[1] : p \in pairs } |-> (CHOOSE p \in pairs : p[1] = c)[2]]

\* the empty HashMap
EmptyMap == HashMapOf({})

\* the hand-authored tables of make_unicode_map
GaijiL_Map ==
    HashMapOf({ <<65, <<551>>>>, <<67, <<5265>>>>, <<68, <<59>>>>, <<69, <<643>>>> })

GaijiL2_Map == HashMapOf({ <<76, <<809>>>> })

Ipa_Map ==
    HashMapOf({ <<4, <<712>>>>, <<7, <<716>>>>, <<34, <<601>>>>, <<35, <<593>>>>,
                <<38, <<240>>>>, <<48, <<331>>>>, <<49, <<596>>>>, <<73, <<103>>>>,
                <<80, <<110>>>>, <<132, <<633>>>>, <<186, <<809>>>>, <<194, <<778>>>>,
                <<196, <<776>>>>, <<229, <<12304, 65311, 12305>>>>,
                <<254, <<12304, 65311, 12305>>>>, <<256, <<12304, 65311, 12305>>>> })

\* the names make_unicode_map matches, each with its table
OverrideNames ==
    { "DXNKCI+GaijiL", "NZLSMO+GaijiL2", "DXNKCI+Ipa-samdUclphon1SILDoulosL" }

OverrideMap(name) ==
    CASE name = "DXNKCI+GaijiL" -> GaijiL_Map
      [] name = "NZLSMO+GaijiL2" -> GaijiL2_Map
      [] name = "DXNKCI+Ipa-samdUclphon1SILDoulosL" -> Ipa_Map

\* match font.name.as_ref().map(|x| x.as_str()) { Some("...") => return ... }
HasOverride(fnt) == fnt.name # None /\ fnt.name[1] \in OverrideNames

\* for code in 32..255u8 { codes.insert(code as u16, (code as char).to_string()) }
Latin1_Map == [code \in 32..254 |-> <<code>>]

\* the codes.insert(code, "...") lines
WinAnsi_Map ==
    HashMapOf({ <<128, <<8364>>>>, <<130, <<8218>>>>, <<131, <<402>>>>, <<132, <<8222>>>>,
                <<133, <<8230>>>>, <<134, <<8224>>>>, <<135, <<8225>>>>, <<136, <<710>>>>,
                <<137, <<8240>>>>, <<138, <<352>>>>, <<139, <<8249>>>>, <<140, <<338>>>>,
                <<142, <<381>>>>, <<145, <<8216>>>>, <<146, <<8217>>>>, <<147, <<8220>>>>,
                <<148, <<8221>>>>, <<149, <<8226>>>>, <<150, <<8211>>>>, <<151, <<8212>>>>,
                <<152, <<732>>>>, <<153, <<8482>>>>, <<154, <<353>>>>, <<155, <<8250>>>>,
                <<158, <<382>>>>, <<159, <<376>>>> })

\* differences.iter().map(|(&k, v)| (k as u16, v.into())); the keys drawn are
\* distinct after the cast.
DifferencesAsMap(differences) ==
    HashMapOf({ <<k % 65536, differences[k]>> : k \in DOMAIN differences })

\* a fallback table whose differences are inserted before the fixed characters
BaseEncodingMap_DifferencesFirst(differences) ==
    WinAnsi_Map @@ DifferencesAsMap(differences) @@ Latin1_Map

\* The table of the base-encoding fallback: a later insert replaces an earlier one
\* (f @@ g takes f where both are defined).
BaseEncodingMap(differences) ==
    DifferencesAsMap(differences) @@ WinAnsi_Map @@ Latin1_Map

\* a fallback that does not look at the subtype
BaseEncodingApplies_AnySubtype(fnt) ==
    fnt.encoding # None /\ fnt.encoding[1].base = "WinAnsiEncoding"

\* if let (FontType::TrueType, Some(Encoding { base: WinAnsiEncoding, differences }))
\*     = (font.subtype, font.encoding())
BaseEncodingApplies(fnt) ==
    /\ fnt.subtype = "TrueType"
    /\ fnt.encoding # None
    /\ fnt.encoding[1].base = "WinAnsiEncoding"

Resolved(map) == [ok |-> TRUE, map |-> map, msg |-> ""]
Unresolved(msg) == [ok |-> FALSE, map |-> EmptyMap, msg |-> msg]

\* the steps of make_unicode_map after the match on the name
ResolveUnnamed(fnt) ==
    IF fnt.to_unicode # None
    THEN IF fnt.to_unicode[1].ok
         THEN Resolved(fnt.to_unicode[1].map)
         ELSE Unresolved("to_unicode")
    ELSE IF BaseEncodingApplies(fnt)
         THEN Resolved(BaseEncodingMap(fnt.encoding[1].differences))
    ELSE Unresolved("Cannot generate ToUnicode map")

\* a resolver that looks for the embedded table before the name
make_unicode_map_EmbeddedFirst(fnt) ==
    IF fnt.to_unicode # None /\ fnt.to_unicode[1].ok
    THEN Resolved(fnt.to_unicode[1].map)
    ELSE IF HasOverride(fnt) THEN Resolved(OverrideMap(fnt.name[1]))
    ELSE ResolveUnnamed(fnt)

make_unicode_map(fnt) ==
    IF HasOverride(fnt) THEN Resolved(OverrideMap(fnt.name[1]))
    ELSE ResolveUnnamed(fnt)

Decoded(strings) == [kind |-> "Ok", strings |-> strings]
\* map[&code] on a code the HashMap does not hold, or try_into().unwrap() on a
\* chunk of one byte: a panic while the iterator is collected
Panicked == [kind |-> "Panic", strings |-> <<>>]
\* bail!("Unsupported font type {subtype:?}")
Unsupported == [kind |-> "Unsupported", strings |-> <<>>]

\* a lookup that leaves out the codes the table does not hold
RECURSIVE LookupAll_SkipMissing(_, _)
LookupAll_SkipMissing(map, codes) ==
    IF codes = <<>> THEN Decoded(<<>>)
    ELSE LET rest == LookupAll_SkipMissing(map, Tail(codes)) IN
         IF Head(codes) \in DOMAIN map
         THEN Decoded(<<map[Head(codes)]>> \o rest.strings)
         ELSE rest

\* .map(|code| &map[&code]) collected: one string per code, in order
RECURSIVE LookupAll(_, _)
LookupAll(map, codes) ==
    IF codes = <<>> THEN Decoded(<<>>)
    ELSE IF Head(codes) \notin DOMAIN map THEN Panicked
    ELSE LET rest == LookupAll(map, Tail(codes)) IN
         IF rest.kind = "Ok" THEN Decoded(<<map[Head(codes)]>> \o rest.strings)
         ELSE Panicked

\* text.as_bytes().iter().map(|&b| b as u16)
ByteCodes(bytes) == bytes

\* chunks of two bytes read with the low byte first
ChunkCodes_LittleEndian(bytes) ==
    [i \in 1..(Len(bytes) \div 2) |-> bytes[2 * i] * 256 + bytes[2 * i - 1]]

\* text.as_bytes().chunks(2) of an even number of bytes, each through
\* u16::from_be_bytes
ChunkCodes(bytes) ==
    [i \in 1..(Len(bytes) \div 2) |-> bytes[2 * i - 1] * 256 + bytes[2 * i]]

\* decode_pdf_string, and its iterator collected (main.rs:257-259)
decode_pdf_string(map, subtype, text) ==
    CASE subtype = "TrueType" -> LookupAll(map, ByteCodes(text))
      [] subtype = "Type0" ->
            LET whole == LookupAll(map, ChunkCodes(text)) IN
            IF Len(text) % 2 = 0 THEN whole
            ELSE Panicked
      [] OTHER -> Unsupported

\* ---- the fonts and strings drawn

\* longest PdfString drawn
MaxRaw == 4

Bytes == {0, 1, 65, 128}

RawTexts == UNION { [1..n -> Bytes] : n \in 0..MaxRaw }

FontNames ==
    { None, Some("GaijiL") } \cup { Some(n) : n \in OverrideNames }

\* embedded tables: none, one that cannot be read, two that can
ToUnicodes ==
    { None,
      Some([ok |-> FALSE, map |-> EmptyMap]),
      Some([ok |-> TRUE, map |-> HashMapOf({ <<65, <<97>>>>, <<128, <<102, 105>>>> })]),
      Some([ok |-> TRUE, map |-> HashMapOf({ <<65, <<97>>>>, <<321, <<229>>>>,
                                              <<16640, <<120>>>> })]) }

FontTypes == {"TrueType", "Type0", "Type1"}

Encodings ==
    { None,
      Some([base |-> "StandardEncoding", differences |-> EmptyMap]),
      Some([base |-> "WinAnsiEncoding", differences |-> EmptyMap]),
      Some([base |-> "WinAnsiEncoding", differences |-> HashMapOf({ <<65, <<90>>>> })]),
      Some([base |-> "WinAnsiEncoding",
            differences |-> HashMapOf({ <<1, <<88>>>>, <<128, <<89>>>> })]) }

Fonts ==
    [name : FontNames, subtype : FontTypes, to_unicode : ToUnicodes, encoding : Encodings]

\* ---- the steps

\* make_font_map for the font of a run
Resolve ==
    /\ fpc = "start"
    /\ resolved' = make_unicode_map(font)
    /\ fpc' = IF resolved'.ok THEN "resolved" ELSE "failed"
    /\ UNCHANGED <<font, raw, decoded>>
    /\ UNCHANGED <<textVars, wordVars, dictVars, operatorVars>>

\* main.rs:257-259 for a run in the font
Decode ==
    /\ fpc = "resolved"
    /\ decoded' = decode_pdf_string(resolved.map, font.subtype, raw)
    /\ fpc' = "decoded"
    /\ UNCHANGED <<font, raw, resolved>>
    /\ UNCHANGED <<textVars, wordVars, dictVars, operatorVars>>

InitFont ==
    /\ font \in Fonts
    /\ raw \in RawTexts
    /\ fpc = "start"
    /\ resolved = Unresolved("")
    /\ decoded = Decoded(<<>>)
    /\ TextOff
    /\ WordsOff
    /\ DictOff
    /\ OperatorOff

NextFont == Resolve \/ Decode

\* a font resolved, then a string in it decoded
SpecFont == InitFont /\ [][NextFont]_vars

\* ------------------------------------------- main.rs: not_indented

\* In not_indented and get_words a length is counted in halves of a unit, so that
\* the f32 bounds 70.5, 71.5, 82.5, 91.5, 92.5 and 11.0 are the integers 141, 143,
\* 165, 183, 185 and 22.  A raw text is the sequence of its bytes, a decoded string
\* the sequence of its code points.

\* the size of the glyphs of a text entry: the vertical scale of its text matrix
glyph_size(self) == self.text_matrix[2][2]

\* Ok(b) of anyhow::Result<bool>
Classified(b) == [kind |-> "Ok", not_indented |-> b]

\* a classification by x alone
not_indented_ByXOnly(entry) ==
    LET x == coordinates(entry.positions).x IN
    IF 141 <= x /\ x < 143 THEN Classified(TRUE)
    ELSE IF 160 <= x /\ x < 165 THEN Classified(FALSE)
    ELSE IF 183 <= x /\ x < 185 THEN Classified(FALSE)
    ELSE Err("Unexpected x coordinates")

\* a classification whose ranges include their upper ends
not_indented_Closed(entry) ==
    LET x == coordinates(entry.positions).x IN
    IF entry.text = <<32>> THEN Classified(FALSE)
    ELSE IF 141 <= x /\ x <= 143 THEN Classified(TRUE)
    ELSE IF 160 <= x /\ x <= 165 THEN Classified(FALSE)
    ELSE IF 183 <= x /\ x <= 185 THEN Classified(FALSE)
    ELSE Err("Unexpected x coordinates")

\* fn not_indented(first_entry: &TextEntry) -> anyhow::Result<bool>
not_indented(entry) ==
    LET x == coordinates(entry.positions).x IN
    \* _ if first_entry.text.as_bytes() == b" " => false
    IF entry.text = <<32>> THEN Classified(FALSE)
    \* x if (70.5..71.5).contains(&x) => true
    ELSE IF 141 <= x /\ x < 143 THEN Classified(TRUE)
    \* x if (80.0..82.5).contains(&x) => false
    ELSE IF 160 <= x /\ x < 165 THEN Classified(FALSE)
    \* x if (91.5..92.5).contains(&x) => false
    ELSE IF 183 <= x /\ x < 185 THEN Classified(FALSE)
    \* x => bail!(..)
    ELSE Err("Unexpected x coordinates")

\* the matrices of a run set at (x, 200) with glyphs of the given size
RunAt(x, size) ==
    set_matrix(TextMatrices_default,
               [a |-> size, b |-> 0, c |-> 0, d |-> size, e |-> x, f |-> 200])

\* the x of the entries classified: around every end of the three ranges
IndentXs == {0} \cup 139..144 \cup 159..166 \cup 182..186

\* their raw texts: " ", "a" and two spaces
IndentTexts == { <<32>>, <<97>>, <<32, 32>> }

\* a classification of one entry
Classify ==
    /\ indentation = None
    /\ indentation' = Some(not_indented(first_entry))
    /\ UNCHANGED <<first_entry, doc, pages, page_lines, seen, words, wpc>>
    /\ UNCHANGED <<textVars, fontVars, dictVars, operatorVars>>

InitIndent ==
    /\ first_entry \in { TextEntry(RunAt(x, 18), "F1", t) : x \in IndentXs, t \in IndentTexts }
    /\ indentation = None
    /\ doc = <<>>
    /\ pages = <<>>
    /\ page_lines = <<>>
    /\ seen = <<>>
    /\ words = <<>>
    /\ wpc = "off"
    /\ TextOff
    /\ FontOff
    /\ DictOff
    /\ OperatorOff

NextIndent == Classify

\* not_indented on the first entry of a line
SpecIndent == InitIndent /\ [][NextIndent]_vars

\* --------------------------------------------- main.rs: get_words

\* most pages of a document, and most lines of all its pages together
MaxPages == 2
MaxLines == 3

\* a ParsedTextEntry: a text entry with its decoded strings
Parsed(x, size, text, chars) == <<TextEntry(RunAt(x, size), "F1", text), chars>>

\* the runs of the lines drawn
HeadRun == Parsed(141, 18, <<97>>, << <<97>> >>)              \* "a" at 70.5, size 9
ContRun == Parsed(160, 22, <<98>>, << <<98>> >>)              \* "b" at 80.0, size 11
SpaceRun == Parsed(0, 18, <<32>>, << <<32>> >>)               \* " " at 0
TitleRun == Parsed(0, 24, <<72>>, << <<72>> >>)               \* "H" at 0, size 12
StrayRun == Parsed(0, 18, <<99>>, << <<99>> >>)               \* "c" at 0
TailRun == Parsed(400, 18, <<100, 101>>, << <<100>>, <<101>> >>)  \* "de" further right

\* the lines drawn: a headword line of one and of two runs, a continuation line, a
\* blank line, a line that starts with a space run, a heading, and a line at an x
\* in none of the ranges
LineShapes ==
    << <<HeadRun>>, <<HeadRun, TailRun>>, <<ContRun>>, <<SpaceRun>>,
       <<SpaceRun, TailRun>>, <<TitleRun>>, <<StrayRun>> >>

\* A line of a document is held as its number in LineShapes.
Line(i) == LineShapes[i]

\* what process_page returned for a page: its lines, or an error
PageLines(ls) == [kind |-> "Ok", lines |-> ls]
PageFailed == [kind |-> "Err", msg |-> "process_page"]

\* the strings of a line's runs, run after run, as one string
RECURSIVE Concat(_)
Concat(strings) == IF strings = <<>> THEN <<>> ELSE Head(strings) \o Concat(Tail(strings))

RECURSIVE LineText(_)
LineText(line) == IF line = <<>> THEN <<>> ELSE Concat(Head(line)[2]) \o LineText(Tail(line))

\* a loop body that gives every kept line an entry of its own
GetWordsLine_EntryPerLine(line, ws) ==
    IF glyph_size(line[1][1].positions) > 22 THEN [words |-> ws, stop |-> "no"]
    ELSE IF Len(line) = 1 /\ line[1][2] = << <<32>> >> THEN [words |-> ws, stop |-> "no"]
    ELSE LET c == not_indented(line[1][1]) IN
         IF c.kind = "Err" THEN [words |-> <<>>, stop |-> "failed"]
         ELSE IF ~c.not_indented /\ ws = <<>> THEN [words |-> <<>>, stop |-> "orphan"]
         ELSE [words |-> Append(ws, LineText(line)), stop |-> "no"]

\* a loop body that takes a line of glyph size 11.0 for a heading as well
GetWordsLine_HeadingAt11(line, ws) ==
    IF glyph_size(line[1][1].positions) >= 22 THEN [words |-> ws, stop |-> "no"]
    ELSE IF Len(line) = 1 /\ line[1][2] = << <<32>> >> THEN [words |-> ws, stop |-> "no"]
    ELSE LET c == not_indented(line[1][1]) IN
         IF c.kind = "Err" THEN [words |-> <<>>, stop |-> "failed"]
         ELSE LET pushed == IF c.not_indented THEN Append(ws, <<>>) ELSE ws IN
              IF pushed = <<>> THEN [words |-> <<>>, stop |-> "orphan"]
              ELSE [words |-> [pushed EXCEPT ![Len(pushed)] = @ \o LineText(line)],
                    stop |-> "no"]

\* The body of `for line in process_page(..)?` (main.rs:192-211) on one line.
\* stop: "no", or why get_words returns an error, its words dropped.
GetWordsLine(line, ws) ==
    \* heading
    IF glyph_size(line[1][1].positions) > 22 THEN [words |-> ws, stop |-> "no"]
    \* empty line
    ELSE IF Len(line) = 1 /\ line[1][2] = << <<32>> >> THEN [words |-> ws, stop |-> "no"]
    ELSE LET c == not_indented(line[1][1]) IN
         IF c.kind = "Err" THEN [words |-> <<>>, stop |-> "failed"]
         ELSE LET pushed == IF c.not_indented THEN Append(ws, <<>>) ELSE ws IN
              \* words.last_mut().context("Found indented line before the first line")?
              IF pushed = <<>> THEN [words |-> <<>>, stop |-> "orphan"]
              ELSE [words |-> [pushed EXCEPT ![Len(pushed)] = @ \o LineText(line)],
                    stop |-> "no"]

\* the inner loop of get_words on a list of lines, from the words ws
RECURSIVE GetWordsLines(_, _)
GetWordsLines(ls, ws) ==
    IF ls = <<>> THEN [words |-> ws, stop |-> "no"]
    ELSE LET r == GetWordsLine(Line(Head(ls)), ws) IN
         IF r.stop # "no" THEN r ELSE GetWordsLines(Tail(ls), r.words)

\* an accumulator that starts afresh with every page
CarryWords_Fresh(ws) == <<>>

\* `let mut words = vec![]` stands before `for page in pages` (main.rs:189-190):
\* the next page goes on with the words of the pages before it.
CarryWords(ws) == ws

\* main.rs:190-191: the outer loop takes the next page, or get_words returns
\* Ok(words) when there is none.
PageStep ==
    /\ wpc = "pages"
    /\ IF pages = <<>>
       THEN /\ wpc' = "done"
            /\ UNCHANGED <<pages, page_lines, words>>
       ELSE /\ pages' = Tail(pages)
            /\ IF Head(pages).kind = "Err"
               THEN /\ wpc' = "failed"
                    /\ words' = <<>>
                    /\ page_lines' = <<>>
               ELSE /\ wpc' = "lines"
                    /\ words' = CarryWords(words)
                    /\ page_lines' = Head(pages).lines
    /\ UNCHANGED <<first_entry, indentation, doc, seen>>
    /\ UNCHANGED <<textVars, fontVars, dictVars, operatorVars>>

\* main.rs:191-212: the inner loop takes the next line of the page, or ends.
LineStep ==
    /\ wpc = "lines"
    /\ IF page_lines = <<>>
       THEN /\ wpc' = "pages"
            /\ UNCHANGED <<page_lines, seen, words>>
       ELSE LET r == GetWordsLine(Line(Head(page_lines)), words) IN
            /\ page_lines' = Tail(page_lines)
            /\ seen' = Append(seen, Head(page_lines))
            /\ words' = r.words
            /\ wpc' = IF r.stop = "no" THEN "lines" ELSE r.stop
    /\ UNCHANGED <<first_entry, indentation, doc, pages>>
    /\ UNCHANGED <<textVars, fontVars, dictVars, operatorVars>>

\* the ways to end n pages within k lines: cut[p] is the number of lines on the
\* pages up to the p-th
Cuts(n, k) ==
    { cut \in [1..n -> 0..k] :
        /\ \A p \in 1..(n - 1) : cut[p] <= cut[p + 1]
        /\ IF n = 0 THEN k = 0 ELSE cut[n] = k }

\* the pages that the lines make when cut so
DocOf(flat, cut) ==
    [p \in 1..Len(cut) |->
        PageLines(SubSeq(flat, (IF p = 1 THEN 0 ELSE cut[p - 1]) + 1, cut[p]))]

\* The documents drawn: at most MaxPages pages of at most MaxLines lines together;
\* a page that process_page fails on is the last one, no page after it being
\* looked at.
InitWords ==
    /\ \E k \in 0..MaxLines, n \in 0..MaxPages :
         \E flat \in [1..k -> DOMAIN LineShapes], cut \in Cuts(n, k),
            last \in IF n < MaxPages THEN { <<>>, <<PageFailed>> } ELSE { <<>> } :
              doc = DocOf(flat, cut) \o last
    /\ pages = doc
    /\ page_lines = <<>>
    /\ seen = <<>>
    /\ words = <<>>
    /\ wpc = "pages"
    /\ first_entry = <<>>
    /\ indentation = <<>>
    /\ TextOff
    /\ FontOff
    /\ DictOff
    /\ OperatorOff

NextWords == PageStep \/ LineStep

\* get_words over the pages of a document
SpecWords == InitWords /\ [][NextWords]_vars

\* ------------------------------------- parse_dictionary.rs: the patterns

\* A string is the sequence of its code points; in the comments the text is given
\* in quotes where it is ASCII and by its code points' names where it is not.

\* ---- a regular expression as the regex crate reads it
Chr(set) == [re |-> "chr", set |-> set, parts |-> <<>>, name |-> ""]
Cat(parts) == [re |-> "cat", set |-> {}, parts |-> parts, name |-> ""]
Alt(parts) == [re |-> "alt", set |-> {}, parts |-> parts, name |-> ""]
Star(r) == [re |-> "star", set |-> {}, parts |-> <<r>>, name |-> ""]
Capture(name, r) == [re |-> "group", set |-> {}, parts |-> <<r>>, name |-> name]
StartText == [re |-> "start", set |-> {}, parts |-> <<>>, name |-> ""]
Plus(r) == Cat(<<r, Star(r)>>)
Opt(r) == Alt(<<r, Cat(<<>>)>>)
Lit(text) == Cat([k \in 1..Len(text) |-> Chr({text[k]})])

\* \s, and the characters str::trim and split_whitespace take for white space
WhiteSpace == {9, 10, 11, 12, 13, 32, 133, 160, 5760, 8232, 8233, 8239, 8287, 12288}
                  \cup 8192..8202
Spaces == Star(Chr(WhiteSpace))

\* the named groups of a pattern
RECURSIVE GroupNames(_)
GroupNames(r) ==
    (IF r.re = "group" THEN {r.name} ELSE {})
    \cup UNION { GroupNames(r.parts[k]) : k \in 1..Len(r.parts) }

\* All the ways to match r in s from place i on, with the groups' spans c so far,
\* the preferred way first: an alternation prefers its earlier branch, a
\* repetition one more round. One way is [e |-> the place after the match,
\* c |-> the groups' spans].
RECURSIVE Matches(_, _, _, _)
RECURSIVE Onward(_, _, _)
RECURSIVE Thread(_, _, _)
RECURSIVE Either(_, _, _, _)
Matches(r, s, i, c) ==
    CASE r.re = "chr" ->
           IF i <= Len(s) /\ s[i] \in r.set THEN <<[e |-> i + 1, c |-> c]>> ELSE <<>>
      [] r.re = "start" -> IF i = 1 THEN <<[e |-> i, c |-> c]>> ELSE <<>>
      [] r.re = "cat" -> Thread(r.parts, s, <<[e |-> i, c |-> c]>>)
      [] r.re = "alt" -> Either(r.parts, s, i, c)
      [] r.re = "star" ->
           LET once == SelectSeq(Matches(r.parts[1], s, i, c), LAMBDA f : f.e > i)
           IN  Onward(r, s, once) \o <<[e |-> i, c |-> c]>>
      [] r.re = "group" ->
           LET fs == Matches(r.parts[1], s, i, c)
           IN  [k \in 1..Len(fs) |->
                   [e |-> fs[k].e,
                    c |-> [fs[k].c EXCEPT ![r.name] = Some(<<i, fs[k].e>>)]]]
Onward(r, s, fs) ==
    IF fs = <<>> THEN <<>>
    ELSE Matches(r, s, Head(fs).e, Head(fs).c) \o Onward(r, s, Tail(fs))
Thread(parts, s, fs) ==
    IF parts = <<>> THEN fs ELSE Thread(Tail(parts), s, Onward(Head(parts), s, fs))
Either(parts, s, i, c) ==
    IF parts = <<>> THEN <<>>
    ELSE Matches(Head(parts), s, i, c) \o Either(Tail(parts), s, i, c)

\* Regex::captures_at: the leftmost match at or after place i, the preferred one
\* at that place: None, or Some of the Captures.
RECURSIVE captures_at(_, _, _)
captures_at(r, s, i) ==
    IF i > Len(s) + 1 THEN None
    ELSE LET fs == Matches(r, s, i, [n \in GroupNames(r) |-> None])
         IN  IF fs = <<>> THEN captures_at(r, s, i + 1)
             ELSE Some([text |-> s, start |-> i, end |-> fs[1].e, c |-> fs[1].c])

\* Regex::captures
captures(r, s) == captures_at(r, s, 1)

\* Regex::captures_iter, collected: the matches one after the other, none
\* overlapping the one before
RECURSIVE captures_iter_from(_, _, _)
captures_iter_from(r, s, i) ==
    LET m == captures_at(r, s, i) IN
    IF m = None THEN <<>>
    ELSE <<m[1]>> \o captures_iter_from(r, s, IF m[1].end = m[1].start THEN m[1].end + 1
                                                ELSE m[1].end)
captures_iter(r, s) == captures_iter_from(r, s, 1)

\* Captures::name: None for a group that took no part in the match, and for a
\* name that is no group of the pattern
Captures_name(res, n) ==
    IF n \in DOMAIN res.c /\ res.c[n] # None
    THEN Some(SubSeq(res.text, res.c[n][1][1], res.c[n][1][2] - 1))
    ELSE None

\* ---- the patterns of parse_dictionary

\* [a-zA-Z7 e-acute o-slash ae a-ring O-slash AE A-ring \-.,(right quote)()/(fullwidth =)]+
extended_word_chars ==
    Plus(Chr(97..122 \cup 65..90 \cup {55, 233, 248, 230, 229, 216, 198, 197, 45, 46, 44, 8217, 40, 41, 47, 65309}))

\* {extended_word_chars} ((?-x) (?x) {extended_word_chars})*
extended_heading_words ==
    Cat(<<extended_word_chars, Star(Cat(<<Chr({32}), extended_word_chars>>))>>)

\* [a-zA-Z o-slash ae a-ring O-slash AE A-ring]+
word_chars == Plus(Chr(97..122 \cup 65..90 \cup {248, 230, 229, 216, 198, 197}))

\* {word_chars} ((?-x) (?x) {word_chars})*
heading_words == Cat(<<word_chars, Star(Cat(<<Chr({32}), word_chars>>))>>)

\* the part-of-speech tags, as the pattern and the projection spell them
Tag ==
    [Noun |-> <<21517>>,
     Single |-> <<21517, 12539, 21336>>,
     Multiple |-> <<21517, 12539, 35079>>,
     ProperNoun |-> <<22266>>,
     Pronoun |-> <<20195>>,
     Numeral |-> <<25968>>,
     Adjective |-> <<24418>>,
     Verb |-> <<21205>>,
     Adverb |-> <<21103>>,
     Preposition |-> <<21069>>,
     Conjunction |-> <<25509>>,
     Interjection |-> <<38291>>,
     InfinitiveMarker |-> <<19981, 23450, 35422, 12510, 12540, 12459, 12540>>,
     Article |-> <<20896>>,
     IndefiniteArticle |-> <<19981, 23450, 20896, 35422>>,
     FormalSubject |-> <<24418, 24335, 20027, 35486>>,
     Uninflected |-> <<28961, 22793, 21270>>,
     Invariant |-> <<19981, 22793, 21270>>]

\* [ and its full-width form, ] and its full-width form
OpenBracket == {91, 65339}
CloseBracket == {93, 65341}

\* , and its full-width form
Commas == {44, 65292}

\* ( [\[(fw)]( noun((middle dot)[single multiple])? | proper | pronoun | numeral
\*             | adjective | verb | adverb | preposition | conjunction | interjection
\*             | infinitive marker | article | indefinite article | formal subject
\*   )[\](fw)]
\* | \[adjective\]\s*\[uninflected\] )
pos_pattern ==
    Alt(<<Cat(<<Chr(OpenBracket),
                Alt(<<Cat(<<Lit(Tag.Noun),
                            Opt(Cat(<<Chr({12539}), Chr({21336, 35079})>>))>>),
                      Lit(Tag.ProperNoun), Lit(Tag.Pronoun), Lit(Tag.Numeral),
                      Lit(Tag.Adjective), Lit(Tag.Verb), Lit(Tag.Adverb),
                      Lit(Tag.Preposition), Lit(Tag.Conjunction), Lit(Tag.Interjection),
                      Lit(Tag.InfinitiveMarker), Lit(Tag.Article),
                      Lit(Tag.IndefiniteArticle), Lit(Tag.FormalSubject)>>),
                Chr(CloseBracket)>>),
          Cat(<<Lit(<<91>> \o Tag.Adjective \o <<93>>), Spaces,
                Lit(<<91>> \o Tag.Uninflected \o <<93>>)>>)>>)

\* a pronunciation of the letters a-z and the space only
pronunciation_Ascii == Plus(Alt(<<Chr(97..122), Chr({32})>>))

\* ([a-z (phonetic letters and marks) ;:() U+F0D9]|(?-x) (?x))+
pronunciation ==
    Plus(Alt(<<Chr(97..122 \cup {8217, 229, 551, 228, 230, 246, 248, 945, 58, 712, 716, 601, 593, 240, 331, 596, 103, 110, 633} \cup {809, 778, 776}
                   \cup {551} \cup {5265, 59} \cup {643} \cup {40, 41} \cup {61657}),
               Chr({32})>>))

\* {pronunciation} ([,(fw)]\s* {pronunciation} )*
pronunciation_list ==
    Cat(<<pronunciation, Star(Cat(<<Chr(Commas), Spaces, pronunciation>>))>>)

\* (?P<wp_word> {heading_words} ) \s* \[ (?P<wp_pronunciation> {pronunciation_list} ) \] \s*
word_and_pronunciation ==
    Cat(<<Capture("wp_word", heading_words), Spaces,
          Chr({91}), Capture("wp_pronunciation", pronunciation_list), Chr({93}), Spaces>>)

\* ,\s* (?P<of_suffix_marker> \+ )? (?P<of_word> {extended_heading_words})
\* (?P<of_imparative> ! )? \s* \[ (?P<of_pronunciation> {pronunciation_list} ) \] \s*
\* (?P<of_slahsed> / {word_and_pronunciation} )*
other_forms ==
    Cat(<<Chr({44}), Spaces,
          Opt(Capture("of_suffix_marker", Chr({43}))),
          Capture("of_word", extended_heading_words),
          Opt(Capture("of_imparative", Chr({33}))), Spaces,
          Chr({91}), Capture("of_pronunciation", pronunciation_list), Chr({93}), Spaces,
          Star(Capture("of_slahsed", Cat(<<Chr({47}), word_and_pronunciation>>)))>>)

\* ,\s* (?P<oaf_word> {heading_words} )
\* ( \s* \[ (?P<oaf_pronunciation> {pronunciation_list} ) \] \s* )?
\* (?P<oaf_slashed> (/ {heading_words} )* ) \s*
other_adjective_forms ==
    Cat(<<Chr({44}), Spaces,
          Capture("oaf_word", heading_words),
          Opt(Cat(<<Spaces, Chr({91}), Capture("oaf_pronunciation", pronunciation_list),
                    Chr({93}), Spaces>>)),
          Capture("oaf_slashed", Star(Cat(<<Chr({47}), heading_words>>))), Spaces>>)

\* ^ \+? (?P<word> {extended_heading_words}) (\s*[1-4])? \s*
\* (?P<pos> {pos} ( [,(fw)]\s* {pos} )* )? \s*
\* \[ (?P<pronunciation> {pronunciation_list} ) \] \s*
\* (?P<invariant_adjective> [\[(fw)] invariant [\](fw)] \s* )? (en\s*)?
\* (?P<other_forms> ( {other_forms} )* )
\* (?P<other_adjective_forms> ( {other_adjective_forms} )*)
\* ( \(en\) )? [:(fw)]
entry_pattern ==
    Cat(<<StartText,
          Opt(Chr({43})),
          Capture("word", extended_heading_words),
          Opt(Cat(<<Spaces, Chr(49..52)>>)), Spaces,
          Opt(Capture("pos",
                Cat(<<pos_pattern, Star(Cat(<<Chr(Commas), Spaces, pos_pattern>>))>>))),
          Spaces,
          Chr({91}), Capture("pronunciation", pronunciation_list), Chr({93}), Spaces,
          Opt(Capture("invariant_adjective",
                Cat(<<Chr(OpenBracket), Lit(Tag.Invariant), Chr(CloseBracket), Spaces>>))),
          Opt(Cat(<<Lit(<<101, 110>>), Spaces>>)),
          Capture("other_forms", Star(other_forms)),
          Capture("other_adjective_forms", Star(other_adjective_forms)),
          Opt(Lit(<<40, 101, 110, 41>>)),
          Chr({58, 65306})>>)

\* ---------------------------------------- parse_dictionary.rs: patch

\* The arms of the match in patch, in their order: <<the string matched, the string
\* returned>>.
PatchTable ==
  <<
    \* parse_dictionary.rs:268  altså  (no colon)
    <<
      <<97, 108, 116, 115, 229, 32, 91, 21103, 93, 32, 91, 712, 97, 108, 8217, 115, 596, 44,
        32, 712, 945, 108, 8217, 115, 596, 93, 32, 12377, 12394, 12431, 12385, 65292, 12381,
        12428, 12422, 12360, 12395, 65292, 12375, 12383, 12364, 12387, 12390, 65292, 12388,
        12414, 12426, 65292, 12424, 12358, 12377, 12427, 12395, 65307, 12308, 35441, 12375,
        25163, 12398, 24515, 30340, 24907, 24230, 12434, 34920, 12377, 25991, 21103, 35422,
        12309, 65339, 24847, 21619, 12434, 24375, 12417, 12390, 65341, 12411, 12435, 12392,
        12358, 12395, 65292, 12414, 12387, 12383, 12367, 65307, 65339, 39514, 12365, 12434,
        34920, 12375, 12390, 65341, 12394, 12435, 12392, 65281, 65307, 65339, 36986, 25022,
        65292, 19981, 28288, 65292, 33499, 31435, 12385, 65307, 38750, 38627, 12539, 21646,
        12417, 12434, 34920, 12375, 12390, 65341, 12411, 12435, 12392, 12358, 12395, 65292,
        12356, 12356, 12363, 12370, 12435, 65288, 12395, 65289, 65307, 65339, 30456, 25163,
        12398, 35328, 12387, 12383, 12371, 12392, 12395, 23550, 12375, 12390, 65292, 30456,
        25163, 12398, 35336, 30011, 31561, 12398, 22793, 26356, 12434, 20419, 12375, 12390,
        65341, 65288, 8230, 12392, 12356, 12358, 12371, 12392, 12394, 12398, 12391, 12377,
        12364, 65292, 12381, 12428, 12391, 12418, 12354, 12394, 12383, 12399, 8230, 12377,
        12427, 12398, 12391, 12377, 12363, 65311, 65289, 65307, 65339, 38291, 25237, 35422,
        30340, 12395, 29992, 12356, 12425, 12428, 12390, 65292, 12356, 12425, 12384, 12385,
        65292, 38750, 38627, 65292, 27809, 38957, 12394, 12393, 27096, 12293, 12394, 24863,
        24773, 12434, 34920, 12377, 65288, 29305, 12395, 35441, 12375, 12371, 12392, 12400,
        12395, 12362, 12356, 12390, 65289, 65341, 12354, 12398, 12397, 12360, 65281, 65292,
        12356, 12356, 12363, 12356, 65281, 65292, 12356, 12420, 12399, 12420, 65281, 65292,
        12420, 12428, 12420, 12428, 65281, 65292, 12371, 12428, 12399, 39514, 12356, 12383,
        65281, 32>>,
      <<97, 108, 116, 115, 229, 32, 91, 21103, 93, 32, 91, 712, 97, 108, 8217, 115, 596, 44,
        32, 712, 945, 108, 8217, 115, 596, 93, 58, 32, 12377, 12394, 12431, 12385, 65292,
        12381, 12428, 12422, 12360, 12395, 65292, 12375, 12383, 12364, 12387, 12390, 65292,
        12388, 12414, 12426, 65292, 12424, 12358, 12377, 12427, 12395, 65307, 12308, 35441,
        12375, 25163, 12398, 24515, 30340, 24907, 24230, 12434, 34920, 12377, 25991, 21103,
        35422, 12309, 65339, 24847, 21619, 12434, 24375, 12417, 12390, 65341, 12411, 12435,
        12392, 12358, 12395, 65292, 12414, 12387, 12383, 12367, 65307, 65339, 39514, 12365,
        12434, 34920, 12375, 12390, 65341, 12394, 12435, 12392, 65281, 65307, 65339, 36986,
        25022, 65292, 19981, 28288, 65292, 33499, 31435, 12385, 65307, 38750, 38627, 12539,
        21646, 12417, 12434, 34920, 12375, 12390, 65341, 12411, 12435, 12392, 12358, 12395,
        65292, 12356, 12356, 12363, 12370, 12435, 65288, 12395, 65289, 65307, 65339, 30456,
        25163, 12398, 35328, 12387, 12383, 12371, 12392, 12395, 23550, 12375, 12390, 65292,
        30456, 25163, 12398, 35336, 30011, 31561, 12398, 22793, 26356, 12434, 20419, 12375,
        12390, 65341, 65288, 8230, 12392, 12356, 12358, 12371, 12392, 12394, 12398, 12391,
        12377, 12364, 65292, 12381, 12428, 12391, 12418, 12354, 12394, 12383, 12399, 8230,
        12377, 12427, 12398, 12391, 12377, 12363, 65311, 65289, 65307, 65339, 38291, 25237,
        35422, 30340, 12395, 29992, 12356, 12425, 12428, 12390, 65292, 12356, 12425, 12384,
        12385, 65292, 38750, 38627, 65292, 27809, 38957, 12394, 12393, 27096, 12293, 12394,
        24863, 24773, 12434, 34920, 12377, 65288, 29305, 12395, 35441, 12375, 12371, 12392,
        12400, 12395, 12362, 12356, 12390, 65289, 65341, 12354, 12398, 12397, 12360, 65281,
        65292, 12356, 12356, 12363, 12356, 65281, 65292, 12356, 12420, 12399, 12420, 65281,
        65292, 12420, 12428, 12420, 12428, 65281, 65292, 12371, 12428, 12399, 39514, 12356,
        12383, 65281, 32>>
    >>,
    \* parse_dictionary.rs:270  Amager  (no colon)
    <<
      <<65, 109, 97, 103, 101, 114, 32, 91, 22266, 93, 32, 91, 712, 945, 716, 109, 945, 59,
        93, 32, 12450, 12510, 12540, 65339, 22320, 21517, 65306, 12467, 12506, 12531, 12495,
        12540, 12466, 12531, 21335, 37096, 12398, 23798, 65294, 75, 97, 115, 116, 114, 117,
        112, 31354, 28207, 12364, 12354, 12427, 65341, 65294, 32>>,
      <<65, 109, 97, 103, 101, 114, 32, 91, 22266, 93, 32, 91, 712, 945, 716, 109, 945, 59,
        93, 58, 32, 12450, 12510, 12540, 65339, 22320, 21517, 65306, 12467, 12506, 12531,
        12495, 12540, 12466, 12531, 21335, 37096, 12398, 23798, 65294, 75, 97, 115, 116, 114,
        117, 112, 31354, 28207, 12364, 12354, 12427, 65341, 65294, 32>>
    >>,
    \* parse_dictionary.rs:272  Amaliegade  (no colon)
    <<
      <<65, 109, 97, 108, 105, 101, 103, 97, 100, 101, 32, 91, 22266, 93, 32, 91, 97, 712,
        109, 551, 59, 108, 106, 601, 110, 716, 103, 551, 58, 240, 601, 93, 32, 12450, 12513,
        12540, 12522, 12455, 12466, 12540, 12476, 65339, 36890, 12426, 65306, 12467, 12506,
        12531, 12495, 12540, 12466, 12531, 65341, 65294, 32>>,
      <<65, 109, 97, 108, 105, 101, 103, 97, 100, 101, 32, 91, 22266, 93, 32, 91, 97, 712,
        109, 551, 59, 108, 106, 601, 110, 716, 103, 551, 58, 240, 601, 93, 58, 32, 12450,
        12513, 12540, 12522, 12455, 12466, 12540, 12476, 65339, 36890, 12426, 65306, 12467,
        12506, 12531, 12495, 12540, 12466, 12531, 65341, 65294, 32>>
    >>,
    \* parse_dictionary.rs:274  Amalienborg  (no colon)
    <<
      <<65, 109, 97, 108, 105, 101, 110, 98, 111, 114, 103, 32, 91, 22266, 93, 32, 91, 97,
        712, 109, 551, 59, 108, 106, 601, 110, 716, 98, 593, 778, 8217, 93, 32, 12450, 12513,
        12540, 12522, 12455, 12531, 12508, 12540, 65339, 29579, 23470, 65306, 12467, 12506,
        12531, 12495, 12540, 12466, 12531, 65341, 65294, 32>>,
      <<65, 109, 97, 108, 105, 101, 110, 98, 111, 114, 103, 32, 91, 22266, 93, 32, 91, 97,
        712, 109, 551, 59, 108, 106, 601, 110, 716, 98, 593, 778, 8217, 93, 58, 32, 12450,
        12513, 12540, 12522, 12455, 12531, 12508, 12540, 65339, 29579, 23470, 65306, 12467,
        12506, 12531, 12495, 12540, 12466, 12531, 65341, 65294, 32>>
    >>,
    \* parse_dictionary.rs:276  De  (illegal pronuciation position)
    <<
      <<68, 101, 32, 91, 712, 100, 105, 44, 32, 100, 105, 93, 32, 91, 20195, 93, 32, 91, 712,
        100, 105, 44, 32, 100, 105, 93, 44, 32, 68, 101, 109, 32, 91, 712, 100, 230, 109, 44,
        32, 100, 230, 109, 93, 44, 32, 68, 101, 114, 101, 115, 32, 91, 712, 100, 551, 633,
        596, 115, 44, 32, 712, 100, 551, 58, 596, 115, 44, 32, 100, 551, 596, 115, 93, 58,
        65339, 20154, 31216, 20195, 21517, 35422, 65298, 20154, 31216, 21336, 25968, 12539,
        35079, 25968, 65341, 65339, 12501, 12457, 12540, 12510, 12523, 12394, 38306, 20418,
        12398, 20154, 12395, 23550, 12375, 12390, 29992, 12356, 12427, 65341, 12354, 12394,
        12383, 65292, 12354, 12394, 12383, 26041, 65294, 32>>,
      <<68, 101, 32, 91, 20195, 93, 32, 91, 712, 100, 105, 44, 32, 100, 105, 93, 44, 32, 68,
        101, 109, 32, 91, 712, 100, 230, 109, 44, 32, 100, 230, 109, 93, 44, 32, 68, 101, 114,
        101, 115, 32, 91, 712, 100, 551, 633, 596, 115, 44, 32, 712, 100, 551, 58, 596, 115,
        44, 32, 100, 551, 596, 115, 93, 58, 65339, 20154, 31216, 20195, 21517, 35422, 65298,
        20154, 31216, 21336, 25968, 12539, 35079, 25968, 65341, 65339, 12501, 12457, 12540,
        12510, 12523, 12394, 38306, 20418, 12398, 20154, 12395, 23550, 12375, 12390, 29992,
        12356, 12427, 65341, 12354, 12394, 12383, 65292, 12354, 12394, 12383, 26041, 65294, 32>>
    >>,
    \* parse_dictionary.rs:278  de  (illegal pronuciation position)
    <<
      <<100, 101, 32, 91, 712, 100, 105, 44, 32, 100, 105, 93, 32, 91, 20195, 93, 32, 91, 712,
        100, 105, 44, 32, 100, 105, 93, 44, 32, 100, 101, 109, 32, 91, 712, 100, 230, 109, 44,
        32, 100, 230, 109, 93, 44, 32, 100, 101, 114, 101, 115, 32, 91, 712, 100, 551, 633,
        596, 115, 44, 32, 712, 100, 551, 58, 596, 115, 44, 32, 100, 551, 596, 115, 93, 58,
        65339, 20154, 31216, 20195, 21517, 35422, 65299, 20154, 31216, 35079, 25968, 65341,
        24444, 12425, 65292, 24444, 22899, 12425, 65292, 12381, 12428, 12425, 65307, 65339,
        19981, 23450, 20195, 21517, 35422, 65341, 40, 19968, 33324, 12398, 41, 20154, 12293,
        65292, 12415, 12435, 12394, 65307, 27177, 23041, 65292, 24403, 23616, 65307, 65339,
        25351, 31034, 20195, 21517, 35422, 65341, 65339, 20154, 12539, 21205, 29289, 12539,
        12418, 12398, 12539, 12371, 12392, 12434, 25351, 12375, 12390, 65341, 12354, 12428,
        12425, 40, 12398, 41, 65292, 12381, 12428, 12425, 40, 12398, 41, 65307, 40, 8230,
        12377, 12427, 12539, 12391, 12354, 12427, 41, 20154, 12383, 12385, 12539, 12418,
        12398, 65294, 32>>,
      <<100, 101, 32, 91, 20195, 93, 32, 91, 712, 100, 105, 44, 32, 100, 105, 93, 44, 32, 100,
        101, 109, 32, 91, 712, 100, 230, 109, 44, 32, 100, 230, 109, 93, 44, 32, 100, 101,
        114, 101, 115, 32, 91, 712, 100, 551, 633, 596, 115, 44, 32, 712, 100, 551, 58, 596,
        115, 44, 32, 100, 551, 596, 115, 93, 58, 65339, 20154, 31216, 20195, 21517, 35422,
        65299, 20154, 31216, 35079, 25968, 65341, 24444, 12425, 65292, 24444, 22899, 12425,
        65292, 12381, 12428, 12425, 65307, 65339, 19981, 23450, 20195, 21517, 35422, 65341,
        40, 19968, 33324, 12398, 41, 20154, 12293, 65292, 12415, 12435, 12394, 65307, 27177,
        23041, 65292, 24403, 23616, 65307, 65339, 25351, 31034, 20195, 21517, 35422, 65341,
        65339, 20154, 12539, 21205, 29289, 12539, 12418, 12398, 12539, 12371, 12392, 12434,
        25351, 12375, 12390, 65341, 12354, 12428, 12425, 40, 12398, 41, 65292, 12381, 12428,
        12425, 40, 12398, 41, 65307, 40, 8230, 12377, 12427, 12539, 12391, 12354, 12427, 41,
        20154, 12383, 12385, 12539, 12418, 12398, 65294, 32>>
    >>,
    \* parse_dictionary.rs:280  den1  (illegal pronuciation position)
    <<
      <<100, 101, 110, 49, 32, 91, 712, 100, 230, 110, 8217, 44, 32, 100, 230, 110, 93, 32,
        91, 20195, 93, 32, 91, 712, 100, 230, 110, 8217, 44, 32, 100, 230, 110, 93, 44, 32,
        100, 101, 110, 115, 32, 91, 712, 100, 230, 110, 40, 8217, 41, 115, 44, 32, 100, 230,
        110, 115, 93, 44, 32, 100, 101, 116, 32, 91, 712, 100, 101, 44, 32, 100, 101, 93, 44,
        32, 32, 100, 101, 116, 115, 32, 91, 712, 100, 230, 100, 115, 44, 32, 100, 230, 100,
        115, 93, 44, 32, 100, 101, 32, 91, 712, 100, 105, 44, 32, 100, 105, 93, 44, 32, 100,
        101, 109, 32, 91, 712, 100, 230, 109, 44, 32, 100, 230, 109, 93, 44, 32, 100, 101,
        114, 101, 115, 32, 91, 712, 100, 551, 633, 596, 115, 44, 32, 712, 100, 551, 58, 596,
        115, 44, 32, 100, 551, 596, 115, 93, 58, 65339, 20154, 31216, 20195, 21517, 35422,
        65299, 20154, 31216, 65341, 65339, 12377, 12391, 12395, 36848, 12409, 12383, 21205,
        29289, 12539, 12418, 12398, 12539, 12371, 12392, 12395, 21442, 29031, 12375, 12390,
        65341, 12381, 12428, 65307, 65339, 25351, 31034, 20195, 21517, 35422, 65341, 65339,
        20154, 12539, 21205, 29289, 12539, 12418, 12398, 12539, 12371, 12392, 12434, 25351,
        12375, 12390, 65341, 12354, 12428, 65292, 12381, 12428, 65307, 12354, 12398, 65292,
        12381, 12398, 65307, 21069, 32773, 12398, 65307, 21069, 32773, 65294, 32>>,
      <<100, 101, 110, 49, 32, 91, 20195, 93, 32, 91, 712, 100, 230, 110, 8217, 44, 32, 100,
        230, 110, 93, 44, 32, 100, 101, 110, 115, 32, 91, 712, 100, 230, 110, 40, 8217, 41,
        115, 44, 32, 100, 230, 110, 115, 93, 44, 32, 100, 101, 116, 32, 91, 712, 100, 101, 44,
        32, 100, 101, 93, 44, 32, 32, 100, 101, 116, 115, 32, 91, 712, 100, 230, 100, 115, 44,
        32, 100, 230, 100, 115, 93, 44, 32, 100, 101, 32, 91, 712, 100, 105, 44, 32, 100, 105,
        93, 44, 32, 100, 101, 109, 32, 91, 712, 100, 230, 109, 44, 32, 100, 230, 109, 93, 44,
        32, 100, 101, 114, 101, 115, 32, 91, 712, 100, 551, 633, 596, 115, 44, 32, 712, 100,
        551, 58, 596, 115, 44, 32, 100, 551, 596, 115, 93, 58, 65339, 20154, 31216, 20195,
        21517, 35422, 65299, 20154, 31216, 65341, 65339, 12377, 12391, 12395, 36848, 12409,
        12383, 21205, 29289, 12539, 12418, 12398, 12539, 12371, 12392, 12395, 21442, 29031,
        12375, 12390, 65341, 12381, 12428, 65307, 65339, 25351, 31034, 20195, 21517, 35422,
        65341, 65339, 20154, 12539, 21205, 29289, 12539, 12418, 12398, 12539, 12371, 12392,
        12434, 25351, 12375, 12390, 65341, 12354, 12428, 65292, 12381, 12428, 65307, 12354,
        12398, 65292, 12381, 12398, 65307, 21069, 32773, 12398, 65307, 21069, 32773, 65294, 32>>
    >>,
    \* parse_dictionary.rs:282  en2  (no colon)
    <<
      <<101, 110, 50, 32, 91, 25968, 93, 32, 91, 712, 101, 59, 110, 93, 32, 101, 116, 32, 91,
        712, 101, 100, 93, 58, 32, 19968, 65292, 49, 12388, 65292, 49, 20154, 65292, 49,
        20491, 32>>,
      <<101, 110, 50, 32, 91, 25968, 93, 32, 91, 712, 101, 59, 110, 93, 44, 32, 101, 116, 32,
        91, 712, 101, 100, 93, 58, 32, 19968, 65292, 49, 12388, 65292, 49, 20154, 65292, 49,
        20491, 32>>
    >>,
    \* parse_dictionary.rs:284  firsindstyvende  (no colon)
    <<
      <<102, 105, 114, 115, 105, 110, 100, 115, 116, 121, 118, 101, 110, 100, 101, 32, 91,
        25968, 93, 32, 91, 712, 102, 105, 633, 8217, 115, 601, 110, 115, 712, 116, 121, 58,
        118, 601, 110, 601, 93, 32, 31532, 20843, 21313, 30058, 30446, 12398, 65294, 32>>,
      <<102, 105, 114, 115, 105, 110, 100, 115, 116, 121, 118, 101, 110, 100, 101, 32, 91,
        25968, 93, 32, 91, 712, 102, 105, 633, 8217, 115, 601, 110, 115, 712, 116, 121, 58,
        118, 601, 110, 601, 93, 58, 32, 31532, 20843, 21313, 30058, 30446, 12398, 65294, 32>>
    >>,
    \* parse_dictionary.rs:286  Frederiksborg  (no colon)
    <<
      <<70, 114, 101, 100, 101, 114, 105, 107, 115, 98, 111, 114, 103, 32, 83, 108, 111, 116,
        32, 91, 22266, 93, 32, 91, 102, 114, 230, 240, 114, 230, 103, 115, 712, 98, 593, 778,
        59, 712, 115, 108, 596, 100, 93, 32, 12501, 12524, 12474, 12524, 12463, 12473, 12508,
        12540, 22478, 65339, 21271, 12471, 12455, 12521, 12531, 12395, 12354, 12427, 22478,
        65341, 32>>,
      <<70, 114, 101, 100, 101, 114, 105, 107, 115, 98, 111, 114, 103, 32, 83, 108, 111, 116,
        32, 91, 22266, 93, 32, 91, 102, 114, 230, 240, 114, 230, 103, 115, 712, 98, 593, 778,
        59, 712, 115, 108, 596, 100, 93, 58, 32, 12501, 12524, 12474, 12524, 12463, 12473,
        12508, 12540, 22478, 65339, 21271, 12471, 12455, 12521, 12531, 12395, 12354, 12427,
        22478, 65341, 32>>
    >>,
    \* parse_dictionary.rs:288  græker  (no colon)
    <<
      <<103, 114, 230, 107, 101, 114, 32, 91, 21517, 93, 32, 91, 712, 103, 114, 230, 59, 103,
        596, 93, 44, 32, 103, 114, 230, 107, 101, 114, 101, 110, 32, 91, 712, 103, 114, 230,
        59, 103, 596, 596, 110, 93, 44, 32, 103, 114, 230, 107, 101, 114, 101, 32, 91, 712,
        103, 114, 230, 59, 103, 596, 596, 93, 44, 32, 32, 103, 114, 230, 107, 101, 114, 110,
        101, 32, 91, 712, 103, 114, 230, 59, 103, 596, 110, 601, 93, 44, 32, 12462, 12522,
        12471, 12450, 20154, 32>>,
      <<103, 114, 230, 107, 101, 114, 32, 91, 21517, 93, 32, 91, 712, 103, 114, 230, 59, 103,
        596, 93, 44, 32, 103, 114, 230, 107, 101, 114, 101, 110, 32, 91, 712, 103, 114, 230,
        59, 103, 596, 596, 110, 93, 44, 32, 103, 114, 230, 107, 101, 114, 101, 32, 91, 712,
        103, 114, 230, 59, 103, 596, 596, 93, 44, 32, 32, 103, 114, 230, 107, 101, 114, 110,
        101, 32, 91, 712, 103, 114, 230, 59, 103, 596, 110, 601, 93, 58, 32, 12462, 12522,
        12471, 12450, 20154, 32>>
    >>,
    \* parse_dictionary.rs:290  halvfemsindstyvende  (no colon)
    <<
      <<104, 97, 108, 118, 102, 101, 109, 115, 105, 110, 100, 115, 116, 121, 118, 101, 110,
        100, 101, 32, 91, 25968, 93, 32, 91, 104, 97, 108, 712, 102, 230, 109, 8217, 115, 601,
        110, 115, 712, 116, 121, 58, 118, 601, 110, 601, 44, 32, 104, 97, 108, 712, 102, 230,
        109, 8217, 115, 601, 110, 115, 712, 116, 121, 58, 119, 601, 110, 601, 93, 32, 31532,
        20061, 21313, 30058, 30446, 12398, 65294, 32>>,
      <<104, 97, 108, 118, 102, 101, 109, 115, 105, 110, 100, 115, 116, 121, 118, 101, 110,
        100, 101, 32, 91, 25968, 93, 32, 91, 104, 97, 108, 712, 102, 230, 109, 8217, 115, 601,
        110, 115, 712, 116, 121, 58, 118, 601, 110, 601, 44, 32, 104, 97, 108, 712, 102, 230,
        109, 8217, 115, 601, 110, 115, 712, 116, 121, 58, 119, 601, 110, 601, 93, 58, 32,
        31532, 20061, 21313, 30058, 30446, 12398, 65294, 32>>
    >>,
    \* parse_dictionary.rs:292  halvfjerdsindstyvende  (no colon)
    <<
      <<104, 97, 108, 118, 102, 106, 101, 114, 100, 115, 105, 110, 100, 115, 116, 121, 118,
        101, 110, 100, 101, 32, 91, 25968, 93, 32, 91, 104, 97, 108, 712, 102, 106, 551, 633,
        115, 601, 110, 115, 712, 116, 121, 58, 118, 601, 110, 601, 44, 32, 104, 97, 108, 712,
        102, 106, 551, 633, 115, 601, 110, 115, 712, 116, 121, 58, 119, 601, 110, 601, 93, 32,
        31532, 19971, 21313, 30058, 30446, 12398, 65294, 32>>,
      <<104, 97, 108, 118, 102, 106, 101, 114, 100, 115, 105, 110, 100, 115, 116, 121, 118,
        101, 110, 100, 101, 32, 91, 25968, 93, 32, 91, 104, 97, 108, 712, 102, 106, 551, 633,
        115, 601, 110, 115, 712, 116, 121, 58, 118, 601, 110, 601, 44, 32, 104, 97, 108, 712,
        102, 106, 551, 633, 115, 601, 110, 115, 712, 116, 121, 58, 119, 601, 110, 601, 93, 58,
        32, 31532, 19971, 21313, 30058, 30446, 12398, 65294, 32>>
    >>,
    \* parse_dictionary.rs:294  halvtredsindstyvende  (no colon)
    <<
      <<104, 97, 108, 118, 116, 114, 101, 100, 115, 105, 110, 100, 115, 116, 121, 118, 101,
        110, 100, 101, 32, 91, 25968, 93, 32, 91, 712, 116, 114, 230, 115, 601, 110, 115, 712,
        116, 121, 58, 118, 601, 110, 601, 44, 32, 712, 116, 114, 230, 115, 601, 110, 115, 712,
        116, 121, 58, 119, 601, 110, 601, 93, 32, 31532, 20116, 21313, 30058, 30446, 12398,
        65294, 32>>,
      <<104, 97, 108, 118, 116, 114, 101, 100, 115, 105, 110, 100, 115, 116, 121, 118, 101,
        110, 100, 101, 32, 91, 25968, 93, 32, 91, 712, 116, 114, 230, 115, 601, 110, 115, 712,
        116, 121, 58, 118, 601, 110, 601, 44, 32, 712, 116, 114, 230, 115, 601, 110, 115, 712,
        116, 121, 58, 119, 601, 110, 601, 93, 58, 32, 31532, 20116, 21313, 30058, 30446,
        12398, 65294, 32>>
    >>,
    \* parse_dictionary.rs:296  have1  (illegal parenthesis)
    <<
      <<104, 97, 118, 101, 49, 32, 91, 21517, 93, 32, 91, 712, 104, 551, 58, 118, 601, 44, 32,
        712, 104, 551, 58, 119, 601, 93, 44, 32, 104, 97, 118, 101, 110, 32, 91, 91, 712, 104,
        551, 58, 118, 601, 110, 44, 32, 712, 104, 551, 58, 119, 601, 110, 93, 44, 32, 104, 97,
        118, 101, 114, 32, 91, 712, 104, 551, 58, 118, 596, 44, 32, 712, 104, 551, 58, 119,
        596, 93, 44, 32, 32, 104, 97, 118, 101, 114, 110, 101, 32, 91, 712, 104, 551, 58, 118,
        596, 110, 601, 44, 32, 712, 104, 551, 58, 119, 596, 110, 601, 93, 58, 32, 24237,
        65292, 24237, 22290, 65292, 20844, 22290, 65294, 32>>,
      <<104, 97, 118, 101, 49, 32, 91, 21517, 93, 32, 91, 712, 104, 551, 58, 118, 601, 44, 32,
        712, 104, 551, 58, 119, 601, 93, 44, 32, 104, 97, 118, 101, 110, 32, 91, 712, 104,
        551, 58, 118, 601, 110, 44, 32, 712, 104, 551, 58, 119, 601, 110, 93, 44, 32, 104, 97,
        118, 101, 114, 32, 91, 712, 104, 551, 58, 118, 596, 44, 32, 712, 104, 551, 58, 119,
        596, 93, 44, 32, 32, 104, 97, 118, 101, 114, 110, 101, 32, 91, 712, 104, 551, 58, 118,
        596, 110, 601, 44, 32, 712, 104, 551, 58, 119, 596, 110, 601, 93, 58, 32, 24237,
        65292, 24237, 22290, 65292, 20844, 22290, 65294, 32>>
    >>,
    \* parse_dictionary.rs:298  hof  (TODO illegal insertion of "en" (not sure))
    <<
      <<104, 111, 102, 32, 91, 21517, 93, 32, 91, 712, 104, 596, 102, 93, 32, 101, 110, 44,
        32, 104, 111, 102, 102, 101, 114, 32, 91, 712, 104, 596, 102, 596, 93, 58, 32, 12487,
        12531, 12510, 12540, 12463, 12398, 12499, 12540, 12523, 20250, 31038, 12459, 12540,
        12523, 12473, 12505, 12450, 31038, 32, 40, 67, 97, 114, 108, 115, 98, 101, 114, 103,
        41, 32, 12398, 12521, 12460, 12540, 12499, 12540, 12523, 12398, 24859, 31216, 65294,
        32>>,
      <<104, 111, 102, 32, 91, 21517, 93, 32, 91, 712, 104, 596, 102, 93, 32, 101, 110, 44,
        32, 104, 111, 102, 102, 101, 114, 32, 91, 712, 104, 596, 102, 596, 93, 58, 32, 12487,
        12531, 12510, 12540, 12463, 12398, 12499, 12540, 12523, 20250, 31038, 12459, 12540,
        12523, 12473, 12505, 12450, 31038, 32, 40, 67, 97, 114, 108, 115, 98, 101, 114, 103,
        41, 32, 12398, 12521, 12460, 12540, 12499, 12540, 12523, 12398, 24859, 31216, 65294,
        32>>
    >>,
    \* parse_dictionary.rs:300  hun  (missing comma)
    <<
      <<104, 117, 110, 32, 91, 20195, 93, 32, 91, 712, 104, 117, 110, 44, 32, 104, 117, 110,
        93, 32, 104, 101, 110, 100, 101, 32, 91, 712, 104, 101, 110, 601, 44, 32, 104, 101,
        110, 601, 93, 44, 32, 104, 101, 110, 100, 101, 115, 32, 91, 712, 104, 101, 110, 601,
        115, 44, 32, 104, 101, 110, 601, 115, 93, 58, 65339, 20154, 31216, 20195, 21517,
        35422, 65299, 20154, 31216, 21336, 25968, 22899, 24615, 65341, 24444, 22899, 65294, 32>>,
      <<104, 117, 110, 32, 91, 20195, 93, 32, 91, 712, 104, 117, 110, 44, 32, 104, 117, 110,
        93, 44, 32, 104, 101, 110, 100, 101, 32, 91, 712, 104, 101, 110, 601, 44, 32, 104,
        101, 110, 601, 93, 44, 32, 104, 101, 110, 100, 101, 115, 32, 91, 712, 104, 101, 110,
        601, 115, 44, 32, 104, 101, 110, 601, 115, 93, 58, 65339, 20154, 31216, 20195, 21517,
        35422, 65299, 20154, 31216, 21336, 25968, 22899, 24615, 65341, 24444, 22899, 65294, 32>>
    >>,
    \* parse_dictionary.rs:302  hvem  (Special word)
    <<
      <<104, 118, 101, 109, 32, 91, 20195, 93, 32, 91, 712, 118, 230, 109, 8217, 93, 44,
        65339, 25152, 26377, 26684, 65341, 104, 118, 105, 115, 32, 91, 712, 118, 101, 115, 93,
        58, 65339, 30097, 21839, 20195, 21517, 35422, 65341, 35504, 12539, 12393, 12398,
        20154, 12539, 12393, 12435, 12394, 20154, 40, 12364, 12539, 12434, 12539, 12395, 41,
        65307, 65339, 38306, 20418, 20195, 21517, 35422, 65341, 65339, 20154, 12434, 34920,
        12377, 20808, 34892, 35422, 12434, 21463, 12369, 12390, 65341, 8230, 12377, 12427,
        12392, 12371, 12429, 12398, 40, 20154, 41, 65339, 29694, 22312, 12391, 12399, 65292,
        12371, 12398, 29992, 27861, 12391, 12399, 65292, 104, 118, 101, 109, 12364, 38306,
        20418, 31680, 20013, 12398, 20027, 35486, 12395, 12394, 12427, 12371, 12392, 12399,
        12394, 12356, 65341, 65307, 65339, 20808, 34892, 35422, 12434, 21547, 12416, 19981,
        23450, 38306, 20418, 20195, 21517, 35422, 65341, 40, 8230, 12377, 12427, 41, 12384,
        12428, 12391, 12418, 65292, 12393, 12435, 12394, 20154, 12391, 12418, 65294, 32>>,
      <<104, 118, 101, 109, 32, 91, 20195, 93, 32, 91, 712, 118, 230, 109, 8217, 93, 44, 32,
        104, 118, 105, 115, 32, 91, 712, 118, 101, 115, 93, 58, 65339, 30097, 21839, 20195,
        21517, 35422, 65341, 35504, 12539, 12393, 12398, 20154, 12539, 12393, 12435, 12394,
        20154, 40, 12364, 12539, 12434, 12539, 12395, 41, 65307, 65339, 38306, 20418, 20195,
        21517, 35422, 65341, 65339, 20154, 12434, 34920, 12377, 20808, 34892, 35422, 12434,
        21463, 12369, 12390, 65341, 8230, 12377, 12427, 12392, 12371, 12429, 12398, 40, 20154,
        41, 65339, 29694, 22312, 12391, 12399, 65292, 12371, 12398, 29992, 27861, 12391,
        12399, 65292, 104, 118, 101, 109, 12364, 38306, 20418, 31680, 20013, 12398, 20027,
        35486, 12395, 12394, 12427, 12371, 12392, 12399, 12394, 12356, 65341, 65307, 65339,
        20808, 34892, 35422, 12434, 21547, 12416, 19981, 23450, 38306, 20418, 20195, 21517,
        35422, 65341, 40, 8230, 12377, 12427, 41, 12384, 12428, 12391, 12418, 65292, 12393,
        12435, 12394, 20154, 12391, 12418, 65294, 32>>
    >>,
    \* parse_dictionary.rs:304  jeg  (missing comma)
    <<
      <<106, 101, 103, 32, 91, 20195, 93, 32, 91, 712, 106, 945, 40, 5265, 41, 44, 32, 106,
        945, 40, 5265, 41, 93, 32, 109, 105, 103, 32, 91, 712, 109, 945, 5265, 44, 32, 109,
        945, 40, 5265, 41, 93, 58, 65339, 20154, 31216, 20195, 21517, 35422, 65297, 20154,
        31216, 21336, 25968, 65341, 31169, 65292, 20693, 65294, 32>>,
      <<106, 101, 103, 32, 91, 20195, 93, 32, 91, 712, 106, 945, 40, 5265, 41, 44, 32, 106,
        945, 40, 5265, 41, 93, 44, 32, 109, 105, 103, 32, 91, 712, 109, 945, 5265, 44, 32,
        109, 945, 40, 5265, 41, 93, 58, 65339, 20154, 31216, 20195, 21517, 35422, 65297,
        20154, 31216, 21336, 25968, 65341, 31169, 65292, 20693, 65294, 32>>
    >>,
    \* parse_dictionary.rs:306  klejne  (illegal POS insertion)
    <<
      <<107, 108, 101, 106, 110, 101, 32, 91, 21517, 93, 32, 91, 712, 107, 108, 945, 5265,
        110, 601, 93, 44, 32, 107, 108, 101, 106, 110, 101, 110, 32, 91, 21517, 93, 32, 91,
        712, 107, 108, 945, 5265, 110, 601, 110, 93, 44, 32, 107, 108, 101, 106, 110, 101,
        114, 32, 91, 712, 107, 108, 945, 5265, 110, 596, 93, 44, 32, 107, 108, 101, 106, 110,
        101, 114, 32, 91, 712, 107, 108, 945, 5265, 110, 596, 110, 601, 93, 58, 32, 12463,
        12521, 12452, 12493, 65288, 29305, 12395, 12463, 12522, 12473, 12510, 12473, 12398,
        26178, 26399, 12395, 39135, 12377, 12427, 65292, 12397, 12376, 12426, 12489, 12540,
        12490, 12483, 12484, 65289, 65294, 32>>,
      <<107, 108, 101, 106, 110, 101, 32, 91, 21517, 93, 32, 91, 712, 107, 108, 945, 5265,
        110, 601, 93, 44, 32, 107, 108, 101, 106, 110, 101, 110, 32, 91, 712, 107, 108, 945,
        5265, 110, 601, 110, 93, 44, 32, 107, 108, 101, 106, 110, 101, 114, 32, 91, 712, 107,
        108, 945, 5265, 110, 596, 93, 44, 32, 107, 108, 101, 106, 110, 101, 114, 32, 91, 712,
        107, 108, 945, 5265, 110, 596, 110, 601, 93, 58, 32, 12463, 12521, 12452, 12493,
        65288, 29305, 12395, 12463, 12522, 12473, 12510, 12473, 12398, 26178, 26399, 12395,
        39135, 12377, 12427, 65292, 12397, 12376, 12426, 12489, 12540, 12490, 12483, 12484,
        65289, 65294, 32>>
    >>,
    \* parse_dictionary.rs:308  knuse  (typo, found \uf022 instead of !)
    <<
      <<107, 110, 117, 115, 101, 32, 91, 21205, 93, 32, 91, 712, 107, 110, 117, 58, 115, 601,
        93, 44, 32, 107, 110, 117, 115, 101, 114, 32, 91, 712, 107, 110, 117, 59, 115, 596,
        93, 44, 32, 107, 110, 117, 115, 116, 101, 32, 91, 712, 107, 110, 117, 58, 115, 100,
        601, 93, 44, 32, 107, 110, 117, 115, 116, 32, 91, 712, 107, 110, 117, 59, 115, 100,
        93, 44, 32, 32, 107, 110, 117, 115, 101, 110, 100, 101, 32, 91, 712, 107, 110, 117,
        58, 115, 601, 110, 601, 93, 44, 32, 107, 110, 117, 115, 61474, 32, 91, 712, 107, 110,
        117, 59, 115, 93, 58, 32, 22730, 12377, 65292, 12371, 12394, 12372, 12394, 12395,
        12377, 12427, 65292, 30741, 12367, 65294, 32>>,
      <<107, 110, 117, 115, 101, 32, 91, 21205, 93, 32, 91, 712, 107, 110, 117, 58, 115, 601,
        93, 44, 32, 107, 110, 117, 115, 101, 114, 32, 91, 712, 107, 110, 117, 59, 115, 596,
        93, 44, 32, 107, 110, 117, 115, 116, 101, 32, 91, 712, 107, 110, 117, 58, 115, 100,
        601, 93, 44, 32, 107, 110, 117, 115, 116, 32, 91, 712, 107, 110, 117, 59, 115, 100,
        93, 44, 32, 32, 107, 110, 117, 115, 101, 110, 100, 101, 32, 91, 712, 107, 110, 117,
        58, 115, 601, 110, 601, 93, 44, 32, 107, 110, 117, 115, 33, 32, 91, 712, 107, 110,
        117, 59, 115, 93, 58, 32, 22730, 12377, 65292, 12371, 12394, 12372, 12394, 12395,
        12377, 12427, 65292, 30741, 12367, 65294, 32>>
    >>,
    \* parse_dictionary.rs:310  lille  (Special word)
    <<
      <<108, 105, 108, 108, 101, 32, 91, 24418, 93, 32, 91, 712, 108, 105, 108, 601, 93,
        65339, 24615, 65292, 26082, 30693, 47, 26410, 30693, 12434, 21839, 12431, 12378,
        65292, 21517, 35422, 12398, 21336, 25968, 24418, 12392, 12392, 12418, 12395, 65341,
        44, 32, 115, 109, 229, 32, 91, 115, 109, 229, 59, 93, 32, 91, 24615, 65292, 26082,
        30693, 47, 26410, 30693, 12434, 21839, 12431, 12378, 65292, 21517, 35422, 12398,
        35079, 25968, 24418, 12392, 12392, 12418, 12395, 93, 65292, 109, 105, 110, 100, 114,
        101, 32, 91, 712, 109, 101, 110, 100, 114, 596, 93, 44, 32, 109, 105, 110, 100, 115,
        116, 32, 91, 712, 109, 101, 110, 8217, 115, 100, 93, 44, 32, 109, 105, 110, 100, 115,
        116, 101, 32, 91, 712, 109, 101, 110, 8217, 115, 100, 601, 93, 58, 32, 23567, 12373,
        12394, 65294, 32>>,
      <<108, 105, 108, 108, 101, 32, 91, 24418, 93, 32, 91, 712, 108, 105, 108, 601, 93, 44,
        32, 115, 109, 229, 32, 91, 115, 109, 229, 59, 93, 44, 32, 109, 105, 110, 100, 114,
        101, 32, 91, 712, 109, 101, 110, 100, 114, 596, 93, 44, 32, 109, 105, 110, 100, 115,
        116, 32, 91, 712, 109, 101, 110, 8217, 115, 100, 93, 44, 32, 109, 105, 110, 100, 115,
        116, 101, 32, 91, 712, 109, 101, 110, 8217, 115, 100, 601, 93, 58, 32, 23567, 12373,
        12394, 65294, 32>>
    >>,
    \* parse_dictionary.rs:312  Louisiana  (Missing colon)
    <<
      <<76, 111, 117, 105, 115, 105, 97, 110, 97, 32, 91, 22266, 93, 32, 91, 108, 117, 105,
        115, 105, 712, 97, 110, 97, 93, 32, 12523, 12452, 12473, 12451, 12450, 12490, 32654,
        34899, 39208, 65339, 21271, 12471, 12455, 12521, 12531, 12398, 12507, 12512, 12524,
        12505, 12463, 40, 72, 117, 109, 108, 101, 98, 230, 107, 41, 32, 12395, 12354, 12427,
        32654, 34899, 39208, 65341, 65294, 32>>,
      <<76, 111, 117, 105, 115, 105, 97, 110, 97, 32, 91, 22266, 93, 32, 91, 108, 117, 105,
        115, 105, 712, 97, 110, 97, 93, 58, 32, 12523, 12452, 12473, 12451, 12450, 12490,
        32654, 34899, 39208, 65339, 21271, 12471, 12455, 12521, 12531, 12398, 12507, 12512,
        12524, 12505, 12463, 40, 72, 117, 109, 108, 101, 98, 230, 107, 41, 32, 12395, 12354,
        12427, 32654, 34899, 39208, 65341, 65294, 32>>
    >>,
    \* parse_dictionary.rs:314  O.k.  (insonsistent style for multiple pronunciations)
    <<
      <<79, 46, 107, 46, 32, 91, 38291, 93, 32, 91, 712, 229, 119, 712, 107, 230, 5265, 93,
        47, 91, 712, 111, 59, 712, 107, 229, 59, 93, 58, 32, 79, 75, 65292, 20102, 35299,
        65292, 12431, 12363, 12426, 12414, 12375, 12383, 32>>,
      <<79, 46, 107, 46, 32, 91, 38291, 93, 32, 91, 712, 229, 119, 712, 107, 230, 5265, 44,
        32, 712, 111, 59, 712, 107, 229, 59, 93, 58, 32, 79, 75, 65292, 20102, 35299, 65292,
        12431, 12363, 12426, 12414, 12375, 12383, 32>>
    >>,
    \* parse_dictionary.rs:316  Samsø  (missing colong)
    <<
      <<83, 97, 109, 115, 248, 32, 91, 22266, 93, 32, 91, 712, 115, 945, 109, 716, 115, 248,
        59, 93, 32, 12469, 12512, 12473, 12540, 23798, 65294, 32>>,
      <<83, 97, 109, 115, 248, 32, 91, 22266, 93, 32, 91, 712, 115, 945, 109, 716, 115, 248,
        59, 93, 58, 32, 12469, 12512, 12473, 12540, 23798, 65294, 32>>
    >>,
    \* parse_dictionary.rs:318  snitte  (illegal parenthesis)
    <<
      <<115, 110, 105, 116, 116, 101, 32, 91, 21205, 93, 32, 91, 712, 115, 110, 105, 100, 601,
        93, 44, 32, 115, 110, 105, 116, 116, 101, 114, 32, 91, 712, 115, 110, 105, 100, 596,
        93, 44, 32, 115, 110, 105, 116, 116, 101, 100, 101, 32, 91, 712, 115, 110, 105, 100,
        601, 240, 601, 93, 44, 32, 115, 110, 105, 116, 116, 101, 116, 32, 91, 712, 115, 110,
        105, 100, 601, 240, 93, 44, 32, 32, 115, 110, 105, 116, 116, 101, 110, 100, 101, 32,
        91, 712, 115, 110, 105, 100, 601, 110, 601, 93, 44, 32, 115, 110, 105, 116, 33, 93,
        32, 91, 712, 115, 110, 105, 100, 93, 58, 32, 40, 26408, 12394, 12393, 12434, 41,
        12490, 12452, 12501, 12391, 23569, 12375, 21066, 12427, 65307, 24427, 12427, 65292,
        21051, 12416, 65307, 32048, 12363, 12367, 12539, 34180, 12367, 20999, 12427, 65294, 32>>,
      <<115, 110, 105, 116, 116, 101, 32, 91, 21205, 93, 32, 91, 712, 115, 110, 105, 100, 601,
        93, 44, 32, 115, 110, 105, 116, 116, 101, 114, 32, 91, 712, 115, 110, 105, 100, 596,
        93, 44, 32, 115, 110, 105, 116, 116, 101, 100, 101, 32, 91, 712, 115, 110, 105, 100,
        601, 240, 601, 93, 44, 32, 115, 110, 105, 116, 116, 101, 116, 32, 91, 712, 115, 110,
        105, 100, 601, 240, 93, 44, 32, 32, 115, 110, 105, 116, 116, 101, 110, 100, 101, 32,
        91, 712, 115, 110, 105, 100, 601, 110, 601, 93, 44, 32, 115, 110, 105, 116, 33, 32,
        91, 712, 115, 110, 105, 100, 93, 58, 32, 40, 26408, 12394, 12393, 12434, 41, 12490,
        12452, 12501, 12391, 23569, 12375, 21066, 12427, 65307, 24427, 12427, 65292, 21051,
        12416, 65307, 32048, 12363, 12367, 12539, 34180, 12367, 20999, 12427, 65294, 32>>
    >>,
    \* parse_dictionary.rs:320  spændende  (too many commas)
    <<
      <<115, 112, 230, 110, 100, 101, 110, 100, 101, 32, 91, 24418, 93, 32, 91, 712, 115, 98,
        230, 110, 601, 110, 601, 93, 32, 91, 19981, 22793, 21270, 93, 44, 32, 44, 32, 109,
        101, 114, 101, 32, 115, 112, 230, 110, 100, 101, 110, 100, 101, 44, 32, 109, 101, 115,
        116, 32, 115, 112, 230, 110, 100, 101, 110, 100, 101, 58, 32, 38754, 30333, 12356,
        65307, 12431, 12367, 12431, 12367, 12377, 12427, 65307, 12473, 12522, 12522, 12531,
        12464, 12394, 65294, 32>>,
      <<115, 112, 230, 110, 100, 101, 110, 100, 101, 32, 91, 24418, 93, 32, 91, 712, 115, 98,
        230, 110, 601, 110, 601, 93, 32, 91, 19981, 22793, 21270, 93, 44, 32, 109, 101, 114,
        101, 32, 115, 112, 230, 110, 100, 101, 110, 100, 101, 44, 32, 109, 101, 115, 116, 32,
        115, 112, 230, 110, 100, 101, 110, 100, 101, 58, 32, 38754, 30333, 12356, 65307,
        12431, 12367, 12431, 12367, 12377, 12427, 65307, 12473, 12522, 12522, 12531, 12464,
        12394, 65294, 32>>
    >>,
    \* parse_dictionary.rs:322  tuborg  (TODO en)
    <<
      <<116, 117, 98, 111, 114, 103, 32, 91, 21517, 93, 32, 91, 712, 116, 117, 716, 98, 593,
        59, 93, 32, 101, 110, 44, 32, 116, 117, 98, 111, 114, 103, 32, 91, 712, 116, 117, 716,
        98, 593, 59, 93, 58, 32, 12363, 12388, 12390, 12399, 12499, 12540, 12523, 20250,
        31038, 12488, 12453, 12508, 12540, 31038, 12364, 29983, 29987, 12375, 65292, 29694,
        22312, 12399, 12459, 12540, 12523, 12473, 12505, 12450, 31038, 12364, 29983, 29987,
        12375, 12390, 12356, 12427, 12521, 12460, 12540, 12499, 12540, 12523, 103, 114, 248,
        109, 32, 116, 117, 98, 111, 114, 103, 12398, 24859, 31216, 65294, 32>>,
      <<116, 117, 98, 111, 114, 103, 32, 91, 21517, 93, 32, 91, 712, 116, 117, 716, 98, 593,
        59, 93, 32, 101, 110, 44, 32, 116, 117, 98, 111, 114, 103, 32, 91, 712, 116, 117, 716,
        98, 593, 59, 93, 58, 32, 12363, 12388, 12390, 12399, 12499, 12540, 12523, 20250,
        31038, 12488, 12453, 12508, 12540, 31038, 12364, 29983, 29987, 12375, 65292, 29694,
        22312, 12399, 12459, 12540, 12523, 12473, 12505, 12450, 31038, 12364, 29983, 29987,
        12375, 12390, 12356, 12427, 12521, 12460, 12540, 12499, 12540, 12523, 103, 114, 248,
        109, 32, 116, 117, 98, 111, 114, 103, 12398, 24859, 31216, 65294, 32>>
    >>,
    \* parse_dictionary.rs:324  varm  (semicolon instead of colon)
    <<
      <<118, 97, 114, 109, 32, 91, 24418, 93, 32, 91, 712, 118, 945, 59, 109, 93, 44, 32, 118,
        97, 114, 109, 116, 32, 91, 712, 118, 945, 59, 109, 100, 93, 44, 32, 118, 97, 114, 109,
        101, 32, 91, 712, 118, 945, 58, 109, 601, 93, 44, 32, 118, 97, 114, 109, 101, 114,
        101, 32, 91, 712, 118, 945, 58, 109, 596, 596, 93, 44, 32, 32, 118, 97, 114, 109, 101,
        115, 116, 32, 91, 712, 118, 945, 58, 109, 601, 115, 100, 93, 44, 32, 118, 97, 114,
        109, 101, 115, 116, 101, 32, 91, 712, 118, 945, 58, 109, 601, 115, 100, 601, 93, 59,
        28201, 12363, 12356, 65292, 26262, 12363, 12356, 65307, 12420, 12420, 26257, 12356,
        65307, 29105, 12356, 65307, 24605, 12356, 12420, 12426, 12398, 12354, 12427, 65292,
        24515, 12398, 12371, 12418, 12387, 12383, 65294, 32>>,
      <<118, 97, 114, 109, 32, 91, 24418, 93, 32, 91, 712, 118, 945, 59, 109, 93, 44, 32, 118,
        97, 114, 109, 116, 32, 91, 712, 118, 945, 59, 109, 100, 93, 44, 32, 118, 97, 114, 109,
        101, 32, 91, 712, 118, 945, 58, 109, 601, 93, 44, 32, 118, 97, 114, 109, 101, 114,
        101, 32, 91, 712, 118, 945, 58, 109, 596, 596, 93, 44, 32, 32, 118, 97, 114, 109, 101,
        115, 116, 32, 91, 712, 118, 945, 58, 109, 601, 115, 100, 93, 44, 32, 118, 97, 114,
        109, 101, 115, 116, 101, 32, 91, 712, 118, 945, 58, 109, 601, 115, 100, 601, 93, 58,
        32, 28201, 12363, 12356, 65292, 26262, 12363, 12356, 65307, 12420, 12420, 26257,
        12356, 65307, 29105, 12356, 65307, 24605, 12356, 12420, 12426, 12398, 12354, 12427,
        65292, 24515, 12398, 12371, 12418, 12387, 12383, 65294, 32>>
    >>,
    \* parse_dictionary.rs:326  vid  (illegal parenthesis)
    <<
      <<118, 105, 100, 32, 91, 24418, 93, 32, 91, 712, 118, 105, 59, 240, 93, 44, 32, 118,
        105, 100, 116, 32, 91, 712, 118, 105, 100, 93, 44, 32, 118, 105, 100, 101, 32, 91,
        24418, 93, 32, 91, 712, 118, 105, 58, 240, 601, 93, 44, 32, 118, 105, 100, 101, 114,
        101, 32, 91, 712, 118, 105, 58, 240, 596, 596, 44, 32, 118, 105, 100, 101, 115, 116,
        32, 91, 712, 118, 105, 58, 240, 601, 115, 100, 93, 44, 32, 32, 118, 105, 100, 101,
        115, 116, 101, 32, 91, 712, 118, 105, 58, 240, 601, 115, 100, 601, 93, 58, 32, 24195,
        12356, 65292, 24195, 22823, 12394, 65292, 24195, 12293, 12392, 12375, 12383, 65307,
        36960, 12356, 65292, 36960, 12367, 38626, 12428, 12383, 65294, 32>>,
      <<118, 105, 100, 32, 91, 24418, 93, 32, 91, 712, 118, 105, 59, 240, 93, 44, 32, 118,
        105, 100, 116, 32, 91, 712, 118, 105, 100, 93, 44, 32, 118, 105, 100, 101, 32, 91,
        712, 118, 105, 58, 240, 601, 93, 44, 32, 118, 105, 100, 101, 114, 101, 32, 91, 712,
        118, 105, 58, 240, 596, 596, 93, 44, 32, 118, 105, 100, 101, 115, 116, 32, 91, 712,
        118, 105, 58, 240, 601, 115, 100, 93, 44, 32, 32, 118, 105, 100, 101, 115, 116, 101,
        32, 91, 712, 118, 105, 58, 240, 601, 115, 100, 601, 93, 58, 32, 24195, 12356, 65292,
        24195, 22823, 12394, 65292, 24195, 12293, 12392, 12375, 12383, 65307, 36960, 12356,
        65292, 36960, 12367, 38626, 12428, 12383, 65294, 32>>
    >>,
    \* parse_dictionary.rs:328  øre1  (Exceptional pattern)
    <<
      <<248, 114, 101, 49, 32, 91, 21517, 93, 32, 91, 712, 248, 58, 596, 93, 44, 32, 248, 114,
        101, 116, 32, 91, 712, 248, 58, 596, 240, 93, 44, 32, 248, 114, 101, 114, 32, 91, 712,
        248, 58, 596, 93, 40, 47, 248, 114, 101, 110, 32, 91, 712, 248, 58, 596, 110, 93, 41,
        44, 32, 248, 114, 101, 114, 110, 101, 32, 91, 712, 248, 58, 596, 110, 601, 93, 58, 32,
        32819, 65294, 32>>,
      <<248, 114, 101, 49, 32, 91, 21517, 93, 32, 91, 712, 248, 58, 596, 93, 44, 32, 248, 114,
        101, 116, 32, 91, 712, 248, 58, 596, 240, 93, 44, 32, 248, 114, 101, 114, 32, 91, 712,
        248, 58, 596, 93, 47, 248, 114, 101, 110, 32, 91, 712, 248, 58, 596, 110, 93, 44, 32,
        248, 114, 101, 114, 110, 101, 32, 91, 712, 248, 58, 596, 110, 601, 93, 58, 32, 32819,
        65294, 32>>
    >>
  >>

\* a patch that also takes a corrected string back to the one it corrects
patch_Back(s) ==
    LET arms == { k \in DOMAIN PatchTable : PatchTable[k][1] = s }
        back == { k \in DOMAIN PatchTable : PatchTable[k][2] = s }
    IN  IF arms # {} THEN PatchTable[CHOOSE k \in arms : \A j \in arms : k <= j][2]
        ELSE IF back # {} THEN PatchTable[CHOOSE k \in back : \A j \in back : k <= j][1]
        ELSE s

\* pub fn patch(s: &str) -> &str: the first arm that matches s, or `_ => s`
patch(s) ==
    LET arms == { k \in DOMAIN PatchTable : PatchTable[k][1] = s }
    IN  IF arms = {} THEN s
        ELSE PatchTable[CHOOSE k \in arms : \A j \in arms : k <= j][2]

\* --------------------------------- parse_dictionary.rs: the projection

\* str::trim
RECURSIVE trim_start(_)
trim_start(s) ==
    IF s # <<>> /\ Head(s) \in WhiteSpace THEN trim_start(Tail(s)) ELSE s
RECURSIVE trim_end(_)
trim_end(s) ==
    IF s # <<>> /\ s[Len(s)] \in WhiteSpace THEN trim_end(SubSeq(s, 1, Len(s) - 1)) ELSE s
trim(s) == trim_end(trim_start(s))

\* str::split at every character of seps, collected
RECURSIVE split(_, _)
split(s, seps) ==
    LET at == { k \in 1..Len(s) : s[k] \in seps } IN
    IF at = {} THEN <<s>>
    ELSE LET k == CHOOSE k \in at : \A j \in at : k <= j
         IN  <<SubSeq(s, 1, k - 1)>> \o split(SubSeq(s, k + 1, Len(s)), seps)

\* str::split_whitespace, collected
split_whitespace(s) == SelectSeq(split(s, WhiteSpace), LAMBDA piece : piece # <<>>)

\* fn parse_pronuncitation_list(s: &str) -> Vec<&str>
parse_pronuncitation_list(s) ==
    LET pieces == split(s, {44}) IN [k \in 1..Len(pieces) |-> trim(pieces[k])]

\* enum Pos, with the argument of Noun and of Adjective spelled out
Noun(count) == [pos |-> "Noun", arg |-> count]
Adjective(invariant) == [pos |-> "Adjective", arg |-> IF invariant THEN "true" ELSE "false"]
Plain(p) == [pos |-> p, arg |-> ""]

\* The closure of pos.split(comma).map(..) (parse_dictionary.rs:116-145): Some of the
\* Pos, or None where strip_prefix(..).unwrap(), strip_suffix(..).unwrap() or
\* unreachable!(..) panics.
PosOf(piece, invariant_adjective) ==
    LET t == trim(piece) IN
    IF t = <<>> \/ t[1] \notin OpenBracket THEN None
    ELSE LET u == Tail(t) IN
    IF u = <<>> \/ u[Len(u)] \notin CloseBracket THEN None
    ELSE LET tag == SubSeq(u, 1, Len(u) - 1) IN
    CASE tag = Tag.Noun -> Some(Noun("None"))
      [] tag = Tag.Single -> Some(Noun("Single"))
      [] tag = Tag.Multiple -> Some(Noun("Multiple"))
      [] tag = Tag.ProperNoun -> Some(Plain("ProperNoun"))
      [] tag = Tag.Pronoun -> Some(Plain("Pronoun"))
      [] tag = Tag.Numeral -> Some(Plain("Numeral"))
      [] tag = Tag.Adjective -> Some(Adjective(invariant_adjective))
      [] split_whitespace(tag) = <<Tag.Adjective \o <<93>>, <<91>> \o Tag.Uninflected>> ->
           Some(Adjective(TRUE))
      [] tag = Tag.Verb -> Some(Plain("Verb"))
      [] tag = Tag.Adverb -> Some(Plain("Adverb"))
      [] tag = Tag.Preposition -> Some(Plain("Preposition"))
      [] tag = Tag.Conjunction -> Some(Plain("Conjunction"))
      [] tag = Tag.Interjection -> Some(Plain("Interjection"))
      [] tag = Tag.InfinitiveMarker -> Some(Plain("InfinitiveMarker"))
      [] tag = Tag.Article -> Some(Plain("Article"))
      [] tag = Tag.IndefiniteArticle -> Some(Plain("IndefiniteArticle"))
      [] tag = Tag.FormalSubject -> Some(Plain("FormalSubject"))
      [] OTHER -> None

\* struct OtherForm
OtherForm(word, pronunciations, slahsed) ==
    [word |-> word, pronunciations |-> pronunciations, slahsed |-> slahsed]

\* struct Entry
Entry(word, pos, pronunciations, forms, adjective_forms) ==
    [word |-> word, pos |-> pos, pronunciations |-> pronunciations,
     other_forms |-> forms, other_adjective_forms |-> adjective_forms]

\* The closure given to map_or_else for the slashed pairs of an other-form
\* (parse_dictionary.rs:154-168): Some of the pairs, or None where
\* expect("Already matched") panics.
SlashedPairs(pairs) ==
    LET each == Tail(split(pairs, {47}))
        found == [k \in 1..Len(each) |-> captures(word_and_pronunciation, trim(each[k]))]
    IN  IF \E k \in 1..Len(each) : found[k] = None THEN None
        ELSE Some([k \in 1..Len(each) |->
                     OtherForm(Captures_name(found[k][1], "wp_word")[1],
                               parse_pronuncitation_list(
                                   Captures_name(found[k][1], "wp_pronunciation")[1]),
                               <<>>)])

\* The closure of other_forms_regex.captures_iter(other_forms).map(..)
\* (parse_dictionary.rs:151-174) on one match: Some of the OtherForm, or None
\* where it panics.
OtherFormOf(res) ==
    LET group == Captures_name(res, "of_slashed")
        slahsed == IF group = None THEN Some(<<>>) ELSE SlashedPairs(group[1])
    IN  IF slahsed = None THEN None
        ELSE Some(OtherForm(Captures_name(res, "of_word")[1],
                            parse_pronuncitation_list(
                                Captures_name(res, "of_pronunciation")[1]),
                            slahsed[1]))

\* The closure of other_adjective_forms_regex.captures_iter(..).map(..)
\* (parse_dictionary.rs:179-201) on one match.
OtherAdjectiveFormOf(res) ==
    LET group == Captures_name(res, "oaf_pronunciation")
        each == Tail(split(Captures_name(res, "oaf_slashed")[1], {47}))
    IN  OtherForm(Captures_name(res, "oaf_word")[1],
                  IF group = None THEN <<>> ELSE parse_pronuncitation_list(group[1]),
                  [k \in 1..Len(each) |-> OtherForm(trim(each[k]), <<>>, <<>>)])

\* the character counted by the second branch of the loop: the rightwards arrow
Arrows(s) == Cardinality({ k \in 1..Len(s) : s[k] = 8594 })

\* what one round of the loop over the words did with its word
Printed(entry) == [kind |-> "Entry", entry |-> Some(entry), text |-> <<>>]
Skipped == [kind |-> "Skipped", entry |-> None, text |-> <<>>]
Bailed(text) == [kind |-> "Err", entry |-> None, text |-> text]
Aborted == [kind |-> "Panic", entry |-> None, text |-> <<>>]

\* The body of `for word in words` (parse_dictionary.rs:103-217) on one word.
ParseWord(word) ==
    LET found == captures(entry_pattern, patch(word)) IN
    IF found # None
    THEN LET res == found[1]
             pos == Captures_name(res, "pos")
             invariant_adjective == Captures_name(res, "invariant_adjective") # None
             pieces == IF pos = None THEN <<>> ELSE split(pos[1], Commas)
             tags == [k \in 1..Len(pieces) |-> PosOf(pieces[k], invariant_adjective)]
             forms == captures_iter(other_forms, Captures_name(res, "other_forms")[1])
             projected == [k \in 1..Len(forms) |-> OtherFormOf(forms[k])]
             adjective_forms ==
                 captures_iter(other_adjective_forms,
                               Captures_name(res, "other_adjective_forms")[1])
         IN  IF \E k \in 1..Len(tags) : tags[k] = None THEN Aborted
             ELSE IF \E k \in 1..Len(projected) : projected[k] = None THEN Aborted
             ELSE Printed(Entry(Captures_name(res, "word")[1],
                                [k \in 1..Len(tags) |-> tags[k][1]],
                                parse_pronuncitation_list(
                                    Captures_name(res, "pronunciation")[1]),
                                [k \in 1..Len(projected) |-> projected[k][1]],
                                [k \in 1..Len(adjective_forms) |->
                                    OtherAdjectiveFormOf(adjective_forms[k])]))
    \* word.chars().filter(|&c| c == (arrow)).count() == 1
    ELSE IF Arrows(word) = 1 THEN Skipped
    \* bail!("Could not parse {word:?}")
    ELSE Bailed(word)

\* ------------------------------------ parse_dictionary.rs: the steps

\* most entry strings given to parse_dictionary
MaxWords == 2

\* the entry strings drawn
EntryTexts ==
  <<
    \* 1: "hund [名] [ˈhun’]: 犬．"  (the headword line of the specification's example)
    <<104, 117, 110, 100, 32, 91, 21517, 93, 32, 91, 712, 104, 117, 110, 8217, 93, 58, 32, 29356, 65294>>,
    \* 2: "a [a, b], c [c，d]:"  (an other-form with no slashed pair; two pronunciations
    \*     after the ASCII comma, and two after the full-width one)
    <<97, 32, 91, 97, 44, 32, 98, 93, 44, 32, 99, 32, 91, 99, 65292, 100, 93, 58>>,
    \* 3: "a [a], b [b]/c [c]:"  (an other-form with one slashed pair)
    <<97, 32, 91, 97, 93, 44, 32, 98, 32, 91, 98, 93, 47, 99, 32, 91, 99, 93, 58>>,
    \* 4: "a [a], b [b]/c [c]/d [d, e]:"  (an other-form with two slashed pairs)
    <<97, 32, 91, 97, 93, 44, 32, 98, 32, 91, 98, 93, 47, 99, 32, 91, 99, 93, 47, 100, 32, 91, 100, 44, 32, 101, 93, 58>>,
    \* 5: "a [形] [a], b, c/d:"  (other adjective forms)
    <<97, 32, 91, 24418, 93, 32, 91, 97, 93, 44, 32, 98, 44, 32, 99, 47, 100, 58>>,
    \* 6: "a → b"  (no match, one arrow)
    <<97, 32, 8594, 32, 98>>,
    \* 7: "a b"  (no match, no arrow)
    <<97, 32, 98>>,
    \* 8: "a → b → c"  (no match, two arrows)
    <<97, 32, 8594, 32, 98, 32, 8594, 32, 99>>,
    \* 9: "a [a]: → →"  (a match with two arrows)
    <<97, 32, 91, 97, 93, 58, 32, 8594, 32, 8594>>,
    \* 10: "a [形] [無変化] [a]:"  (the uninflected adjective, with a space between its brackets)
    <<97, 32, 91, 24418, 93, 32, 91, 28961, 22793, 21270, 93, 32, 91, 97, 93, 58>>,
    \* 11: "a [形][無変化] [a]:"  (the uninflected adjective, with none)
    <<97, 32, 91, 24418, 93, 91, 28961, 22793, 21270, 93, 32, 91, 97, 93, 58>>,
    \* 12: "a [名・複] [a]: b"  (one tag, one pronunciation, a gloss)
    <<97, 32, 91, 21517, 12539, 35079, 93, 32, 91, 97, 93, 58, 32, 98>>,
    \* 13: "på [前] [pɔ]: b"  (one tag, one pronunciation, a gloss)
    <<112, 229, 32, 91, 21069, 93, 32, 91, 112, 596, 93, 58, 32, 98>>,
    \* 14: "a ［固］ [a]： b"  (the same with full-width brackets and colon)
    <<97, 32, 65339, 22266, 65341, 32, 91, 97, 93, 65306, 32, 98>>,
    \* 15: the string the arm of parse_dictionary.rs:282 matches (en2, with no comma
    \* before its other-form)
    PatchTable[8][1],
    \* 16: "a [名], [名・単]，［代］,［数］， [形],[動], [副], [前], [接], [間],
    \*      [不定詞マーカー], [冠], [不定冠詞], [形式主語] [a]:"
    \*     (a list of tags, with both commas and both kinds of bracket)
    <<97, 32, 91, 21517, 93, 44, 32, 91, 21517, 12539, 21336, 93, 65292, 65339, 20195, 65341,
      44, 65339, 25968, 65341, 65292, 32, 91, 24418, 93, 44, 91, 21205, 93, 44, 32, 91, 21103,
      93, 44, 32, 91, 21069, 93, 44, 32, 91, 25509, 93, 44, 32, 91, 38291, 93, 44, 32, 91,
      19981, 23450, 35422, 12510, 12540, 12459, 12540, 93, 44, 32, 91, 20896, 93, 44, 32, 91,
      19981, 23450, 20896, 35422, 93, 44, 32, 91, 24418, 24335, 20027, 35486, 93, 32, 91, 97,
      93, 58>>
  >>

\* parse_dictionary.rs:103-219: the loop takes the next word, or parse_dictionary
\* returns Ok(()) when there is none.
ParseStep ==
    /\ ppc = "run"
    /\ IF unparsed = <<>>
       THEN /\ ppc' = "done"
            /\ UNCHANGED <<unparsed, outcomes>>
       ELSE LET o == ParseWord(Head(unparsed)) IN
            /\ unparsed' = Tail(unparsed)
            /\ outcomes' = Append(outcomes, o)
            /\ ppc' = CASE o.kind = "Err" -> "failed"
                        [] o.kind = "Panic" -> "panicked"
                        [] OTHER -> "run"
    /\ UNCHANGED <<entry_strings, patch_arg, patch_results>>
    /\ UNCHANGED <<textVars, fontVars, wordVars, operatorVars>>

InitParse ==
    /\ \E n \in 0..MaxWords : \E ws \in [1..n -> DOMAIN EntryTexts] :
          entry_strings = [k \in 1..n |-> EntryTexts[ws[k]]]
    /\ unparsed = entry_strings
    /\ outcomes = <<>>
    /\ ppc = "run"
    /\ patch_arg = <<>>
    /\ patch_results = <<>>
    /\ TextOff
    /\ FontOff
    /\ WordsOff
    /\ OperatorOff

NextParse == ParseStep

\* parse_dictionary over its words
SpecParse == InitParse /\ [][NextParse]_vars

\* patch applied to a string, and to what it returned
PatchStep ==
    /\ Len(patch_results) < 2
    /\ patch_results' =
         Append(patch_results,
                patch(IF patch_results = <<>> THEN patch_arg
                      ELSE patch_results[Len(patch_results)]))
    /\ UNCHANGED <<entry_strings, unparsed, outcomes, ppc, patch_arg>>
    /\ UNCHANGED <<textVars, fontVars, wordVars, operatorVars>>

\* the strings patch is applied to: every string an arm matches, every string an
\* arm returns, and the entry strings drawn
InitPatch ==
    /\ patch_arg \in { PatchTable[k][1] : k \in DOMAIN PatchTable }
                     \cup { PatchTable[k][2] : k \in DOMAIN PatchTable }
                     \cup { EntryTexts[k] : k \in DOMAIN EntryTexts }
    /\ patch_results = <<>>
    /\ entry_strings = <<>>
    /\ unparsed = <<>>
    /\ outcomes = <<>>
    /\ ppc = "off"
    /\ TextOff
    /\ FontOff
    /\ WordsOff
    /\ OperatorOff

NextPatch == PatchStep

SpecPatch == InitPatch /\ [][NextPatch]_vars

\* ------------------------------------------------ Operator::try_from

\* pdf::primitive::Primitive, as far as try_from tells its values apart
Integer(v) == [kind |-> "Integer", int |-> v]
Number(v) == [kind |-> "Number", num |-> v]
Name(v) == [kind |-> "Name", name |-> v]
String(v) == [kind |-> "String", str |-> v]
Array(v) == [kind |-> "Array", arr |-> v]
Dictionary == [kind |-> "Dictionary"]

\* most operands of an operation drawn freely
MaxOperands == 2

\* the operands drawn
Primitives ==
    { Integer(1), Integer(8), Number(1), Name("DeviceRGB"), String("hund"),
      Array(<<String("hund"), Integer(1)>>), Array(<<Name("DeviceRGB")>>), Dictionary }

\* the operator names drawn: every name try_from has an arm for, and two it has not
OperatorNames ==
    { "q", "Q", "w", "re", "n", "W", "BT", "ET", "Tc", "Tw", "Tf", "Tr", "Td", "TD", "T*",
      "Tm", "Tj", "TJ", "CS", "cs", "SCN", "scn", "BDC", "EMC", "BMC", "gs" }

\* the operand lists drawn: every list of at most MaxOperands operands, and the lists of
\* four and of six numbers that the arms of re and Tm take
OperandLists ==
    UNION { [1..n -> Primitives] : n \in 0..MaxOperands }
        \cup { <<Integer(1), Integer(1), Number(1), Number(1)>>,
               <<Integer(1), Integer(1), Name("DeviceRGB"), Number(1)>>,
               <<Integer(1), Number(1), Number(1), Integer(1), Integer(8), Integer(8)>> }

\* Ok(Operator::class(value))
Converted(class, value) == [kind |-> "Ok", class |-> class, value |-> value]

\* impl TryFrom<&Primitive> for PdfNumber
PdfNumber_try_from(value) ==
    IF value.kind \in {"Integer", "Number"}
    THEN [kind |-> "Ok", v |-> value]
    ELSE Err("Failed to parse PDF number: expected integer or number")

\* the arms that put every operand through pdf_number!: the first operand that is no
\* number returns its error
Numbers(operands, class, value) ==
    IF \A k \in DOMAIN operands : PdfNumber_try_from(operands[k]).kind = "Ok"
    THEN Converted(class, value)
    ELSE Err("Failed to parse PDF number: expected integer or number")

\* the flags of a text rendering mode
TextRenderingMode(m) ==
    CASE m = 0 -> {"Fill"}
      [] m = 1 -> {"Stroke"}
      [] m = 2 -> {"Fill", "Stroke"}
      [] m = 3 -> {}
      [] m = 4 -> {"Fill", "Clip"}
      [] m = 5 -> {"Stroke", "Clip"}
      [] m = 6 -> {"Fill", "Stroke", "Clip"}
      [] m = 7 -> {"Clip"}

\* impl TryFrom<PdfOperation> for Operator: the arms in their order, the first that
\* matches decides
Operator_try_from(op) ==
    LET o == op.operator
        a == op.operands
        n == Len(a)
    IN  IF o = "q" /\ n = 0 THEN Converted("GraphicsState", <<"Push">>)
        ELSE IF o = "Q" /\ n = 0 THEN Converted("GraphicsState", <<"Pop">>)
        ELSE IF o = "w" /\ n = 1 THEN Numbers(a, "GraphicsState", <<"SetLineWidth", a[1]>>)
        ELSE IF o = "re" /\ n = 4
            THEN Numbers(a, "PathConstruction", <<"AppendRectangle", a>>)
        ELSE IF o = "n" /\ n = 0 THEN Converted("PathPainting", <<"EndPath">>)
        ELSE IF o = "W" /\ n = 0 THEN Converted("ClippingPath", <<"AppendNonzero">>)
        ELSE IF o = "BT" /\ n = 0 THEN Converted("TextObject", <<"Begin">>)
        ELSE IF o = "ET" /\ n = 0 THEN Converted("TextObject", <<"End">>)
        ELSE IF o = "Tc" /\ n = 1
            THEN Numbers(a, "TextState", <<"SetCharacterSpacing", a[1]>>)
        ELSE IF o = "Tw" /\ n = 1 THEN Numbers(a, "TextState", <<"SetWordSpacing", a[1]>>)
        ELSE IF o = "Tf" /\ n = 2 /\ a[1].kind = "Name"
            THEN Numbers(<<a[2]>>, "TextState", <<"SetTextFont", a[1].name, a[2]>>)
        ELSE IF o = "Tr" /\ n = 1 /\ a[1].kind = "Integer"
            THEN IF a[1].int \in 0..7
                 THEN Converted("TextState", <<"SetRenderingMode", TextRenderingMode(a[1].int)>>)
                 ELSE Err("Invalid text rendering mode")
        ELSE IF o \in {"Td", "TD"} /\ n = 2
            THEN Numbers(a, "TextPositioning", <<"NextLine", Some(<<o = "TD", a[1], a[2]>>)>>)
        ELSE IF o = "T*" /\ n = 0 THEN Converted("TextPositioning", <<"NextLine", None>>)
        ELSE IF o = "Tm" /\ n = 6 THEN Numbers(a, "TextPositioning", <<"SetTextMatrix", a>>)
        ELSE IF o = "Tj" /\ n = 1 /\ a[1].kind = "String"
            THEN Converted("TextShowing", <<"Show", a[1].str>>)
        ELSE IF o = "TJ" /\ n = 1 /\ a[1].kind = "Array"
            THEN Numbers(SelectSeq(a[1].arr, LAMBDA p : p.kind # "String"),
                         "TextShowing", <<"Adjusted", a[1].arr>>)
        ELSE IF o \in {"CS", "cs"} /\ n = 1
            THEN IF a[1].kind = "Name"
                 THEN Converted("Colour",
                                [operator |-> <<"SetCurrentColourSpace", a[1].name>>,
                                 object |-> IF o = "CS" THEN "Stroking" ELSE "Nonstroking"])
                 ELSE Err("Invalid colour space parameter")
        ELSE IF o = "SCN"
            THEN Converted("Colour", [operator |-> <<"SetColour", a>>, object |-> "Stroking"])
        ELSE IF o = "scn"
            THEN Converted("Colour", [operator |-> <<"SetColour", a>>, object |-> "Stroking"])
        ELSE IF o = "BDC" /\ n = 2 /\ a[1].kind = "Name"
            THEN IF a[2].kind \in {"Dictionary", "Name"}
                 THEN Converted("MarkedContent", <<"Begin", a[1].name, Some(a[2])>>)
                 ELSE Err("Invalid properties for a marked content")
        ELSE IF o = "EMC" /\ n = 0 THEN Converted("MarkedContent", <<"End">>)
        ELSE IF o \in { "q", "Q", "w", "re", "n", "W", "BT", "ET", "Tc", "Tw", "Tf", "Tr",
                        "Td", "TD", "T*", "Tm", "Tj", "TJ", "CS", "cs", "BDC", "EMC" }
            THEN Err("Invalid number of arguments")
        ELSE Converted("Unknown", op)

\* try_from applied to the operation given
Convert ==
    /\ operation # None
    /\ converted = None
    /\ converted' = Some(Operator_try_from(operation[1]))
    /\ UNCHANGED operation
    /\ UNCHANGED <<textVars, fontVars, wordVars, dictVars>>

InitOperator ==
    /\ \E o \in OperatorNames : \E a \in OperandLists :
          operation = Some([operator |-> o, operands |-> a])
    /\ converted = None
    /\ TextOff
    /\ FontOff
    /\ WordsOff
    /\ DictOff

NextOperator == Convert

\* Operator::try_from over the operations drawn
SpecOperator == InitOperator /\ [][NextOperator]_vars

\* ------------------------------------------------------------ the claims

\* what the instructions before the i-th say, read off the page alone
TextObjectOps(i) == { j \in 1..(i - 1) : page[j].op \in {"BeginText", "EndText"} }
FontOps(i) == { j \in 1..(i - 1) : page[j].op = "TextFont" }
Last(S) == CHOOSE j \in S : \A k \in S : k <= j
InTextAt(i) == TextObjectOps(i) # {} /\ page[Last(TextObjectOps(i))].op = "BeginText"
FontSetAt(i) == FontOps(i) # {}
ItemsAt(i) == SelectSeq(items, LAMBDA it : it.at = i)
PositionOps == {"MoveTextPosition", "SetTextMatrix"}
DrawOps == {"TextDraw", "TextDrawAdjusted"}

\* C1: a position or draw instruction processed while no text object is open, and a
\* draw instruction processed in a text object before any set-font, yields exactly
\* one item, an error, and no text entry.
C1_ErrorWithoutState ==
    \A i \in 1..consumed :
        (\/ page[i].op \in PositionOps \cup DrawOps /\ ~InTextAt(i)
         \/ page[i].op \in DrawOps /\ InTextAt(i) /\ ~FontSetAt(i))
        => /\ Len(ItemsAt(i)) = 1
           /\ ItemsAt(i)[1].kind = "Err"

\* C1 witness: a position instruction before any begin-text and a draw instruction
\* in a text object without a font have both been processed, each with its error.
C1_Witness ==
    \E i, j \in 1..consumed :
        /\ page[i].op \in PositionOps /\ TextObjectOps(i) = {}
        /\ page[j].op \in DrawOps /\ InTextAt(j) /\ ~FontSetAt(j)
        /\ ItemsAt(i) # <<>> /\ ItemsAt(i)[1].kind = "Err"
        /\ ItemsAt(j) # <<>> /\ ItemsAt(j)[1].kind = "Err"

Translation(x, y) == Matrix3(1, 0, 0, 0, 1, 0, x, y, 1)

\* C2: the page begin-text, set-font(F, s), move-text-position(x, y), show-text(t),
\* end-text yields no error and, once read to its end, exactly one text entry, with
\* font F, text t and both matrices the translation by (x, y).
C2_SimplePageOneEvent ==
    (/\ Len(page) = 5
     /\ page[1] = BeginText
     /\ page[2].op = "TextFont"
     /\ page[3].op = "MoveTextPosition"
     /\ page[4].op = "TextDraw"
     /\ page[5] = EndText)
    => /\ \A k \in 1..Len(items) : items[k].kind = "Ok"
       /\ Len(items) <= 1
       /\ mode = "done" =>
            /\ Len(items) = 1
            /\ items[1].font = page[2].name
            /\ items[1].text = page[4].text
            /\ items[1].positions.text_matrix
                 = Translation(page[3].translation.x, page[3].translation.y)
            /\ items[1].positions.text_line_matrix
                 = Translation(page[3].translation.x, page[3].translation.y)

\* C2 witness: the page of the specification's example has been read to its end.
C2_Witness ==
    /\ page = SimplePage("F1", 12, 10, 700, "hund")
    /\ mode = "done"
    /\ Len(items) = 1

\* C3: a PositionState is held exactly when the last begin-text/end-text taken is a
\* begin-text; after a begin-text both matrices are the identity, after an end-text
\* there is no PositionState.
C3_PositionIffInText ==
    /\ positions # None <=> InTextAt(consumed + 1)
    /\ consumed >= 1 /\ page[consumed].op = "BeginText"
         => positions = Some(TextMatrices_default)
    /\ consumed >= 1 /\ page[consumed].op = "EndText" => positions = None

\* C3 witness: a begin-text has just been taken inside a text object whose matrices
\* an earlier position instruction had changed.
C3_Witness ==
    /\ consumed >= 3
    /\ page[consumed].op = "BeginText"
    /\ InTextAt(consumed)
    /\ page[consumed - 1].op \in PositionOps
    /\ InTextAt(consumed - 1)
    /\ positions = Some(TextMatrices_default)

\* the string sub-elements of an array, in order
StringsOf(array) == SelectSeq(array, LAMBDA a : a.kind = "Text")
FontAt(i) == page[Last(FontOps(i))].name

\* C4: a show-text-with-adjustments instruction in a text object with a font yields
\* one text entry per string sub-element, in array order, all with the font and the
\* PositionState current at the instruction, which the array leaves unchanged; the
\* items of an instruction come before those of every later instruction.
C4_OneEventPerString ==
    /\ \A a \in 1..(Len(items) - 1) : items[a].at <= items[a + 1].at
    /\ \A i \in 1..consumed :
         page[i].op = "TextDrawAdjusted" /\ InTextAt(i) /\ FontSetAt(i) =>
           LET want == StringsOf(page[i].array)
               evs == ItemsAt(i)
           IN  /\ Len(evs) <= Len(want)
               /\ \A k \in 1..Len(evs) :
                    /\ evs[k].kind = "Ok"
                    /\ evs[k].text = want[k].text
                    /\ evs[k].font = FontAt(i)
                    /\ evs[k].positions = evs[1].positions
               /\ i < consumed \/ mode # "array" => Len(evs) = Len(want)
               /\ i = consumed /\ evs # <<>> => positions = Some(evs[1].positions)

\* C4 witness: an array with two strings around a number has yielded its two entries
\* and a later instruction has yielded an entry after them.
C4_Witness ==
    \E i \in 1..consumed :
        /\ page[i] = TextDrawAdjusted(<<AdjText("a"), AdjSpacing(-50), AdjText("b")>>)
        /\ Len(ItemsAt(i)) = 2
        /\ \E k \in 1..Len(items) : items[k].at > i /\ items[k].kind = "Ok"

\* C5: process_page takes no item after an error item: an error is the last item,
\* process_page has failed with no lines, and nothing more is taken from the page.
C5_StopsAtFirstError ==
    /\ \A k \in 1..(Len(items) - 1) : items[k].kind = "Ok"
    /\ items # <<>> /\ items[Len(items)].kind = "Err"
         => mode = "failed" /\ lines = <<>>
    /\ mode = "failed" => ~ENABLED Next

\* C5 witness: process_page has failed after taking text entries, with a draw
\* instruction still on the page.
C5_Witness ==
    /\ mode = "failed"
    /\ Len(items) >= 2
    /\ items[1].kind = "Ok"
    /\ \E k \in 1..Len(operations) : operations[k].op \in DrawOps

RECURSIVE TotalStrings(_)
TotalStrings(ops) ==
    IF ops = <<>> THEN 0
    ELSE (IF Head(ops).op = "TextDrawAdjusted" THEN Len(StringsOf(Head(ops).array)) ELSE 0)
         + TotalStrings(Tail(ops))

\* C6 as stated: the number of items never exceeds the page's instruction count.
C6_BoundedByInstructionCount == Len(items) <= Len(page)

\* C6 amended: next() called again and again returns None in the end, and the items
\* returned are at most the instructions plus the string sub-elements of the arrays.
C6_FiniteAndBounded ==
    /\ <>(mode = "done")
    /\ [](Len(items) <= Len(page) + TotalStrings(page))

\* C6 witness: a page read to its end has yielded more items than it has
\* instructions.
C6_Witness == mode = "done" /\ Len(items) > Len(page)

\* make_unicode_map has returned for the font
FontResolved == fpc \in {"resolved", "failed", "decoded"}
NameIs(n) == font.name = Some(n)
Named == NameIs("DXNKCI+GaijiL") \/ NameIs("NZLSMO+GaijiL2")
             \/ NameIs("DXNKCI+Ipa-samdUclphon1SILDoulosL")
Embedded == font.to_unicode # None /\ font.to_unicode[1].ok
WinAnsiSimple ==
    /\ font.subtype = "TrueType"
    /\ font.encoding # None
    /\ font.encoding[1].base = "WinAnsiEncoding"

\* C7: a font with one of the three known names gets that name's hand-authored
\* table, whatever else it carries; any other font with a readable embedded table
\* gets the embedded table; a font with no such name, no embedded table, and not
\* (TrueType with WinAnsiEncoding) is not resolved.
C7_StrategyOrder ==
    FontResolved =>
        /\ NameIs("DXNKCI+GaijiL") => resolved.ok /\ resolved.map = GaijiL_Map
        /\ NameIs("NZLSMO+GaijiL2") => resolved.ok /\ resolved.map = GaijiL2_Map
        /\ NameIs("DXNKCI+Ipa-samdUclphon1SILDoulosL")
             => resolved.ok /\ resolved.map = Ipa_Map
        /\ ~Named /\ Embedded => resolved.ok /\ resolved.map = font.to_unicode[1].map
        /\ ~Named /\ font.to_unicode = None /\ ~WinAnsiSimple => ~resolved.ok

\* C7 witness: a font with a known name that also carries an embedded table and
\* WinAnsiEncoding has been resolved to the hand-authored table.
C7_Witness ==
    /\ fpc = "resolved"
    /\ NameIs("DXNKCI+GaijiL")
    /\ Embedded
    /\ WinAnsiSimple
    /\ resolved.map = GaijiL_Map

\* C8: for a TrueType font with WinAnsiEncoding, no known name and no embedded
\* table, the table maps each differences code to its differences value, 128 to the
\* euro sign unless differences say otherwise, and every other code of 32..254 that
\* is not one of the fixed Windows-1252 codes to the Latin-1 character of that code.
C8_BaseEncodingTable ==
    FontResolved /\ ~Named /\ font.to_unicode = None /\ WinAnsiSimple =>
        LET D == font.encoding[1].differences IN
        /\ resolved.ok
        /\ \A c \in DOMAIN D : c \in DOMAIN resolved.map /\ resolved.map[c] = D[c]
        /\ 128 \notin DOMAIN D => resolved.map[128] = <<8364>>
        /\ \A c \in 32..254 :
             c \notin DOMAIN D /\ c \notin DOMAIN WinAnsi_Map => resolved.map[c] = <<c>>

\* C8 witness: with a differences entry 65 -> "Z", 65 resolves to "Z", 66 to "B"
\* and 128 to the euro sign.
C8_Witness ==
    /\ fpc = "resolved"
    /\ ~Named /\ font.to_unicode = None /\ WinAnsiSimple
    /\ 65 \in DOMAIN font.encoding[1].differences
    /\ resolved.map[65] = <<90>>
    /\ resolved.map[66] = <<66>>
    /\ resolved.map[128] = <<8364>>

SupportedTypes == {"TrueType", "Type0"}

\* C9 as stated: every resolved font is TrueType or Type0, and decoding never fails
\* with the unsupported-font-type error.
C9_NeverUnsupported ==
    /\ fpc \in {"resolved", "decoded"} => font.subtype \in SupportedTypes
    /\ fpc = "decoded" => decoded.kind # "Unsupported"

\* C9 amended: a font of another subtype is resolved only through a known name or
\* an embedded table, and decoding in a resolved font fails with the
\* unsupported-font-type error exactly when the font is of another subtype.
C9_UnsupportedOnlyByNameOrTable ==
    /\ fpc \in {"resolved", "decoded"} /\ font.subtype \notin SupportedTypes
         => Named \/ Embedded
    /\ fpc = "decoded"
         => (decoded.kind = "Unsupported" <=> font.subtype \notin SupportedTypes)

\* C9 witness: a Type1 font with an embedded table and no known name was resolved,
\* and decoding in it failed with the unsupported-font-type error.
C9_Witness ==
    /\ fpc = "decoded"
    /\ font.subtype = "Type1"
    /\ ~Named
    /\ Embedded
    /\ decoded.kind = "Unsupported"

\* the character codes of the string, read off the bytes
CodeAt(i) ==
    IF font.subtype = "TrueType" THEN raw[i] ELSE raw[2 * i - 1] * 256 + raw[2 * i]
CodeCount == IF font.subtype = "TrueType" THEN Len(raw) ELSE Len(raw) \div 2

\* C10: for a TrueType font, and for a Type0 font and an even number of bytes, the
\* decoded strings are the table entries of the codes, one per code in order, when
\* the table holds every code, and decoding fails when it lacks one.
C10_OneStringPerCode ==
    fpc = "decoded"
    /\ (font.subtype = "TrueType" \/ (font.subtype = "Type0" /\ Len(raw) % 2 = 0))
    => IF \A i \in 1..CodeCount : CodeAt(i) \in DOMAIN resolved.map
       THEN /\ decoded.kind = "Ok"
            /\ Len(decoded.strings) = CodeCount
            /\ \A i \in 1..CodeCount : decoded.strings[i] = resolved.map[CodeAt(i)]
       ELSE decoded.kind # "Ok"

\* C10 witness: a Type0 string of the two codes 321 and 65, both in the embedded
\* table, has been decoded to the two strings of the table.
C10_Witness ==
    /\ fpc = "decoded"
    /\ font.subtype = "Type0"
    /\ raw = <<1, 65, 0, 65>>
    /\ decoded.kind = "Ok"
    /\ decoded.strings = <<<<229>>, <<97>>>>

\* the text entries of the lines, in the order of the lines
RECURSIVE Flatten(_)
Flatten(ls) == IF ls = <<>> THEN <<>> ELSE Head(ls) \o Flatten(Tail(ls))

\* an item as the iterator returned it
Unrecorded(it) == TextEntry(it.positions, it.font, it.text)

YOf(entry) == coordinates(entry.positions).y

\* the first item above the header band, or one past the last item
FirstAbove ==
    LET above == { k \in 1..Len(items) : YOf(items[k]) > HeaderCutoff }
    IN  IF above = {} THEN Len(items) + 1 ELSE CHOOSE k \in above : \A j \in above : k <= j

\* the runs from the first one above the header band on
KeptRuns ==
    [k \in 1..(Len(items) - FirstAbove + 1) |-> Unrecorded(items[k + FirstAbove - 1])]

\* C11: the runs in the lines are exactly the page's runs from the first one with
\* y > 50 on: every run before it is in no line, and a run with y <= 50 after it is
\* in a line.
C11_DropsLeadingHeaderRuns ==
    mode \notin {"failed", "panicked"} => Flatten(lines) = KeptRuns

\* C11 witness: runs at y = 40, 100, 40 have been read; the first is in no line,
\* the third is.
C11_Witness ==
    /\ Len(items) = 3
    /\ \A k \in 1..3 : items[k].kind = "Ok"
    /\ <<YOf(items[1]), YOf(items[2]), YOf(items[3])>> = <<40, 100, 40>>
    /\ Len(Flatten(lines)) = 2
    /\ YOf(Flatten(lines)[2]) = 40

LineY(k) == YOf(lines[k][1])

\* C12: last_y is the baseline of the first run of the current line (infinite while
\* there is none); a line starts exactly at a run more than 8 below last_y, every
\* other kept run joins the current line; so the loop never panics for want of a
\* line, every line is non-empty, and the lines in order are the kept runs.
C12_LineBreaks ==
    /\ mode # "panicked"
    /\ mode # "failed" =>
         /\ \A k \in 1..Len(lines) : lines[k] # <<>>
         /\ last_y = IF lines = <<>> THEN None ELSE Some(LineY(Len(lines)))
         /\ \A k \in 2..Len(lines) : LineY(k) < LineY(k - 1) - LineGap
         /\ \A k \in 1..Len(lines) : \A j \in 2..Len(lines[k]) :
                ~(YOf(lines[k][j]) < LineY(k) - LineGap)
         /\ (lines = <<>>) <=> (KeptRuns = <<>>)
         /\ Flatten(lines) = KeptRuns

\* C12 witness: runs at y = 100, 95, 80 have been read into two lines, the first
\* of two runs.
C12_Witness ==
    /\ Len(items) = 3
    /\ \A k \in 1..3 : items[k].kind = "Ok"
    /\ <<YOf(items[1]), YOf(items[2]), YOf(items[3])>> = <<100, 95, 80>>
    /\ Len(lines) = 2
    /\ Len(lines[1]) = 2
    /\ last_y = Some(80)

\* the class of a classified entry by its x alone
ClassByX(x) ==
    IF 141 <= x /\ x < 143 THEN Classified(TRUE)
    ELSE IF (160 <= x /\ x < 165) \/ (183 <= x /\ x < 185) THEN Classified(FALSE)
    ELSE Err("Unexpected x coordinates")

\* C13 as stated: the class of a line is given by the x of its first run: [70.5, 71.5)
\* is not indented, [80.0, 82.5) and [91.5, 92.5) are indented, any other x is an
\* error.
C13_ClassByX ==
    indentation # None
        => indentation[1] = ClassByX(coordinates(first_entry.positions).x)

\* C13 amended: that holds of every first run whose raw text is not a single space.
C13_ClassByXUnlessSpace ==
    indentation # None /\ first_entry.text # <<32>>
        => indentation[1] = ClassByX(coordinates(first_entry.positions).x)

\* C13 witness: a first run "a" at x = 82.5 has been classified, with an error.
C13_Witness ==
    /\ first_entry.text = <<97>>
    /\ coordinates(first_entry.positions).x = 165
    /\ indentation = Some(Err("Unexpected x coordinates"))

\* C14 as stated: a first run that is a single space is classified as not indented
\* at every x.
C14_SpaceNotIndented ==
    indentation # None /\ first_entry.text = <<32>>
        => indentation[1] = Classified(TRUE)

\* C14 amended: a first run whose raw text is a single space is classified as
\* indented at every x, and never with an error.
C14_SpaceIndented ==
    indentation # None /\ first_entry.text = <<32>>
        => indentation[1] = Classified(FALSE)

\* C14 witness: a single space at x = 0, which is in none of the ranges, has been
\* classified as indented.
C14_Witness ==
    /\ first_entry.text = <<32>>
    /\ coordinates(first_entry.positions).x = 0
    /\ indentation = Some(Classified(FALSE))

\* a line that get_words drops neither as a heading nor as an empty line
Kept(line) ==
    /\ ~(glyph_size(line[1][1].positions) > 22)
    /\ ~(Len(line) = 1 /\ line[1][2] = << <<32>> >>)

\* the kept lines among those the loop body has been run on
KeptSeen ==
    LET kept == SelectSeq(seen, LAMBDA i : Kept(Line(i)))
    IN  [k \in 1..Len(kept) |-> Line(kept[k])]
IsHead(line) == not_indented(line[1][1]) = Classified(TRUE)
IsCont(line) == not_indented(line[1][1]) = Classified(FALSE)

\* the kept lines that are not indented, and the n-th of them
Heads == { k \in 1..Len(KeptSeen) : IsHead(KeptSeen[k]) }
NthHead(n) == CHOOSE k \in Heads : Cardinality({ j \in Heads : j <= k }) = n
LastOf(n) == IF n = Cardinality(Heads) THEN Len(KeptSeen) ELSE NthHead(n + 1) - 1

\* the text of the kept lines a..b
RECURSIVE SpanText(_, _)
SpanText(a, b) == IF a > b THEN <<>> ELSE LineText(KeptSeen[a]) \o SpanText(a + 1, b)

\* C15: while get_words has not failed there is one raw entry string per kept
\* not-indented line, the n-th string being the text of the n-th such line and of
\* the kept lines after it up to the next one; a kept indented line with no
\* not-indented line before it makes get_words fail and return no entry.
C15_EntryAccumulation ==
    /\ wpc \in {"pages", "lines", "done"} =>
         /\ \A k \in 1..Len(KeptSeen) : IsHead(KeptSeen[k]) \/ IsCont(KeptSeen[k])
         /\ Len(words) = Cardinality(Heads)
         /\ KeptSeen # <<>> => 1 \in Heads
         /\ \A n \in 1..Len(words) : words[n] = SpanText(NthHead(n), LastOf(n))
    /\ (KeptSeen # <<>> /\ IsCont(KeptSeen[1])) <=> (wpc = "orphan")
    /\ wpc = "orphan" => words = <<>>

\* C15 witness: three kept lines, not indented, indented, not indented, have been
\* collected into two entries, "ade de" and "a".
C15_Witness ==
    /\ wpc = "done"
    /\ [k \in 1..Len(seen) |-> Line(seen[k])]
         = << <<HeadRun, TailRun>>, <<SpaceRun, TailRun>>, <<HeadRun>> >>
    /\ words = << <<97, 100, 101, 32, 100, 101>>, <<97>> >>

\* the pages get_words was given that process_page succeeded on
OkPages == SelectSeq(doc, LAMBDA p : p.kind = "Ok")

\* get_words on one page alone
Alone(p) == GetWordsLines(p.lines, <<>>)

RECURSIVE AllLines(_)
AllLines(ps) == IF ps = <<>> THEN <<>> ELSE Head(ps).lines \o AllLines(Tail(ps))

RECURSIVE AllAlone(_)
AllAlone(ps) == IF ps = <<>> THEN <<>> ELSE Alone(Head(ps)).words \o AllAlone(Tail(ps))

\* C16 as stated: the entries of a sequence of pages are the entries of each page
\* processed alone, one page after the other, and each page alone succeeds (a page
\* whose first kept line is indented fails whatever came before).
C16_PageLocal ==
    wpc = "done" =>
        /\ \A k \in 1..Len(doc) : Alone(doc[k]).stop = "no"
        /\ words = AllAlone(doc)

\* C16 amended: the entries are carried from page to page: get_words on a sequence
\* of pages ends as get_words on one page holding all their lines in order, with
\* the same entries or the same failure; an indented line is an orphan only if no
\* line was kept before it on any page.
C16_CarriedAcrossPages ==
    LET r == GetWordsLines(AllLines(OkPages), <<>>) IN
    /\ wpc \in {"done", "failed", "orphan"} =>
         IF r.stop # "no" THEN wpc = r.stop /\ words = <<>>
         ELSE IF Len(OkPages) < Len(doc) THEN wpc = "failed" /\ words = <<>>
         ELSE wpc = "done" /\ words = r.words
    /\ wpc = "orphan" => \A k \in 1..(Len(seen) - 1) : ~Kept(Line(seen[k]))

\* C16 witness: a page of one not-indented line "a" and a next page of one indented
\* line "b" have been collected into the single entry "ab".
C16_Witness ==
    /\ Len(doc) = 2
    /\ doc[1].kind = "Ok" /\ doc[2].kind = "Ok"
    /\ [k \in 1..Len(doc[1].lines) |-> Line(doc[1].lines[k])] = << <<HeadRun>> >>
    /\ [k \in 1..Len(doc[2].lines) |-> Line(doc[2].lines[k])] = << <<ContRun>> >>
    /\ wpc = "done"
    /\ words = << <<97, 98>> >>

\* ---- the claims about parse_dictionary and patch

\* the entry string matches the grammar, as the loop tries it
Matched(w) == captures(entry_pattern, patch(w)) # None

\* the loop went on after its k-th word
WentOn(k) == k < Len(outcomes) \/ ppc \in {"run", "done"}

\* C17: an entry string that does not match the grammar and holds exactly one
\* arrow gives no Entry and no error, and the loop goes on with the next string;
\* one that does not match and holds no arrow or more than one makes parsing fail
\* with an error that carries the string; one that matches gives an Entry however
\* many arrows it holds.
C17_ArrowHandling ==
    \A k \in 1..Len(outcomes) :
        LET w == entry_strings[k]
            o == outcomes[k]
        IN  /\ (~Matched(w) /\ Arrows(w) = 1) => (o = Skipped /\ WentOn(k))
            /\ (~Matched(w) /\ Arrows(w) # 1) =>
                   (o = Bailed(w) /\ k = Len(outcomes) /\ ppc = "failed")
            /\ Matched(w) => o.kind = "Entry"

\* s is a string an arm of patch matches
IsKey(s) == \E k \in DOMAIN PatchTable : PatchTable[k][1] = s

\* s is a string an arm of patch returns
IsValue(s) == \E k \in DOMAIN PatchTable : PatchTable[k][2] = s

\* C18: patch is idempotent: patch of a string an arm returns is that string,
\* patch of patch of any string is patch of it, and a string that no arm matches
\* is returned unchanged.
C18_PatchIdempotent ==
    /\ (Len(patch_results) >= 1 /\ IsValue(patch_arg)) => patch_results[1] = patch_arg
    /\ Len(patch_results) = 2 => patch_results[2] = patch_results[1]
    /\ (Len(patch_results) >= 1 /\ ~IsKey(patch_arg)) => patch_results[1] = patch_arg

\* a string that an arm corrects has been patched twice, and the second patch
\* left the corrected string alone
C18_Witness ==
    /\ IsKey(patch_arg)
    /\ Len(patch_results) = 2
    /\ patch_results[1] # patch_arg
    /\ patch_results[2] = patch_results[1]

\* the text that follows the pronunciation list of a matched other-form, after its
\* closing bracket: the slash-introduced pairs
AfterPronunciation(res) ==
    SubSeq(res.text, res.c["of_pronunciation"][1][2] + 1, res.end - 1)

\* C19: in every Entry, each other-form that the text follows with k >= 0
\* slash-introduced (word, pronunciation-list) pairs has exactly those k pairs in
\* its slahsed, in the order of the text, each with its word and pronunciations.
C19_SlashedPairs ==
    \A k \in 1..Len(outcomes) :
        outcomes[k].kind = "Entry" =>
            LET res == captures(entry_pattern, patch(entry_strings[k]))[1]
                forms == captures_iter(other_forms, Captures_name(res, "other_forms")[1])
                entry == outcomes[k].entry[1]
            IN  /\ Len(entry.other_forms) = Len(forms)
                /\ \A j \in 1..Len(forms) :
                       entry.other_forms[j].slahsed
                           = SlashedPairs(AfterPronunciation(forms[j]))[1]

\* the Entry of "hund [noun] [(stress)hun(right quote)]: (gloss)"
HundEntry ==
    Entry(<<104, 117, 110, 100>>, <<Noun("None")>>, <<<<712, 104, 117, 110, 8217>>>>,
          <<>>, <<>>)

\* C20: an entry string of a headword, one bracketed tag, one bracketed single
\* pronunciation, a colon and a gloss matches and gives the Entry of that headword,
\* that one Pos and that one pronunciation, with no other forms and no other
\* adjective forms; and the word of every Entry is not empty.
C20_SimpleEntry ==
    \A k \in 1..Len(outcomes) :
        /\ entry_strings[k] = EntryTexts[1] => outcomes[k] = Printed(HundEntry)
        /\ entry_strings[k] = EntryTexts[12] =>
               outcomes[k] = Printed(Entry(<<97>>, <<Noun("Multiple")>>, <<<<97>>>>,
                                           <<>>, <<>>))
        /\ entry_strings[k] = EntryTexts[13] =>
               outcomes[k] = Printed(Entry(<<112, 229>>, <<Plain("Preposition")>>,
                                           <<<<112, 596>>>>, <<>>, <<>>))
        /\ entry_strings[k] = EntryTexts[14] =>
               outcomes[k] = Printed(Entry(<<97>>, <<Plain("ProperNoun")>>, <<<<97>>>>,
                                           <<>>, <<>>))
        /\ outcomes[k].kind = "Entry" => outcomes[k].entry[1].word # <<>>

\* the example has been parsed, after another entry
C20_Witness ==
    /\ Len(outcomes) = 2
    /\ outcomes[1].kind = "Entry"
    /\ entry_strings[2] = EntryTexts[1]
    /\ outcomes[2] = Printed(HundEntry)

\* the pieces of the captured pos text of a matched entry string, as the
\* projection splits them, each with its Pos or None
PosPieces(w) ==
    LET res == captures(entry_pattern, patch(w))[1]
        pos == Captures_name(res, "pos")
        pieces == IF pos = None THEN <<>> ELSE split(pos[1], Commas)
    IN  [j \in 1..Len(pieces) |->
            PosOf(pieces[j], Captures_name(res, "invariant_adjective") # None)]

\* C21: for every string the entry pattern matches, each comma-separated piece of
\* the captured pos text, trimmed and stripped of its brackets, is mapped to a Pos:
\* unreachable!("Unexpected pos") is never reached, whatever white space stands
\* between the brackets of the uninflected adjective.
C21_TagsInEnumeration ==
    \A k \in 1..Len(outcomes) :
        Matched(entry_strings[k]) =>
            LET mapped == PosPieces(entry_strings[k]) IN
            /\ \A j \in 1..Len(mapped) : mapped[j] # None
            /\ outcomes[k] # Aborted

\* the characters Windows-1252 assigns to the codes 128..159
Windows1252 ==
    HashMapOf({ <<128, 8364>>, <<130, 8218>>, <<131, 402>>, <<132, 8222>>, <<133, 8230>>,
                <<134, 8224>>, <<135, 8225>>, <<136, 710>>, <<137, 8240>>, <<138, 352>>,
                <<139, 8249>>, <<140, 338>>, <<142, 381>>, <<145, 8216>>, <<146, 8217>>,
                <<147, 8220>>, <<148, 8221>>, <<149, 8226>>, <<150, 8211>>, <<151, 8212>>,
                <<152, 732>>, <<153, 8482>>, <<154, 353>>, <<155, 8250>>, <<156, 339>>,
                <<158, 382>>, <<159, 376>> })

\* C22: in the table of the base-encoding fallback each of the 27 codes of
\* 128..159 to which Windows-1252 assigns a character resolves to that character,
\* not to the Latin-1 control character of the code (unless differences name
\* the code).
C22_Windows1252Overlay ==
    (FontResolved /\ ~Named /\ font.to_unicode = None /\ WinAnsiSimple) =>
        /\ Cardinality(DOMAIN Windows1252) = 27
        /\ \A c \in DOMAIN Windows1252 :
               c \notin DOMAIN font.encoding[1].differences
                   => resolved.map[c] = <<Windows1252[c]>>

\* the line is a heading (its first run's glyph size exceeds 11.0) or a blank row
\* (one run, decoded to a single space)
DroppedLine(line) ==
    \/ glyph_size(line[1][1].positions) > 22
    \/ (Len(line) = 1 /\ line[1][2] = << <<32>> >>)

\* the words after a line of text t that is not indented (head) or indented has
\* been accumulated
Accumulated(ws, head, t) ==
    IF head THEN Append(ws, t) ELSE [ws EXCEPT ![Len(ws)] = @ \o t]

\* C23: a line that is a heading or a blank row leaves the entries as they are and
\* get_words running, wherever its first run stands (it is not classified, so it
\* raises no unexpected-coordinate error and is no orphan); every other line is
\* classified, fails get_words if its x is in none of the ranges or if it is
\* indented with no entry to go to, and is otherwise accumulated: its text opens a
\* new entry or is appended to the last one.
C23_DroppedLines ==
    [][(wpc = "lines" /\ page_lines # <<>>) =>
         LET line == Line(Head(page_lines))
             c == not_indented(line[1][1])
         IN  IF DroppedLine(line) THEN words' = words /\ wpc' = "lines"
             ELSE IF c.kind = "Err" THEN wpc' = "failed"
             ELSE IF ~c.not_indented /\ words = <<>> THEN wpc' = "orphan"
             ELSE /\ wpc' = "lines"
                  /\ words' = Accumulated(words, c.not_indented, LineText(line))]_vars

\* C23 witness: a heading at an x in none of the ranges, a blank row and a headword
\* line "a" have been read: one entry "a", and no failure.
C23_Witness ==
    /\ wpc = "done"
    /\ [k \in 1..Len(seen) |-> Line(seen[k])] = << <<TitleRun>>, <<SpaceRun>>, <<HeadRun>> >>
    /\ words = << <<97>> >>

\* the field of TextState an instruction sets and the value it gives it, for the
\* seven instructions that set one
Setters ==
    {"CharSpacing", "WordSpacing", "TextScaling", "Leading", "TextFont", "TextRenderMode",
     "TextRise"}
OwnField(op) ==
    CASE op.op = "CharSpacing" -> <<"character_spacing", op.char_space>>
      [] op.op = "WordSpacing" -> <<"word_spacing", op.word_space>>
      [] op.op = "TextScaling" -> <<"horizontal_scaling", op.horiz_scale>>
      [] op.op = "Leading" -> <<"leading", op.leading>>
      [] op.op = "TextFont" -> <<"font", Some(<<op.name, op.size>>)>>
      [] op.op = "TextRenderMode" -> <<"rendering_mode", op.mode>>
      [] op.op = "TextRise" -> <<"rise", op.rise>>

\* the name of the last set-font among instructions, None if there is none
RECURSIVE LastFont(_)
LastFont(instructions) ==
    IF instructions = <<>> THEN None
    ELSE IF instructions[Len(instructions)].op = "TextFont"
         THEN Some(instructions[Len(instructions)].name)
    ELSE LastFont(SubSeq(instructions, 1, Len(instructions) - 1))

\* C24: a step that takes one of the seven setting instructions gives its own field
\* of TextState the instruction's value and leaves the other six, a text object
\* being open or not; every other step leaves TextState as it is; and a run that
\* is handed out carries the font of the last set-font among the instructions
\* taken so far, wherever in the page that set-font stands.
C24_TextStateFrame ==
    [][/\ IF mode = "ops" /\ operations # <<>> /\ Head(operations).op \in Setters
          THEN params' = [params EXCEPT ![OwnField(Head(operations))[1]] =
                                            OwnField(Head(operations))[2]]
          ELSE params' = params
       /\ (Len(items') > Len(items) /\ items'[Len(items')].kind = "Ok") =>
              Some(items'[Len(items')].font)
                  = LastFont(SubSeq(page, 1, Len(page) - Len(operations')))]_vars

\* C24 witness: the font was set before the first text object, and the run drawn
\* in the second text object carries it.
C24_Witness ==
    /\ page = <<TextFont("F1", 12), BeginText, MoveTextPosition(10, 60), TextDraw("hund"),
                EndText, BeginText, TextDraw("hund")>>
    /\ mode = "done"
    /\ Len(items) = 2
    /\ items[2].kind = "Ok"
    /\ items[2].font = "F1"
    /\ params.font = Some(<<"F1", 12>>)

\* the pronunciations of a matched pronunciation-list: the pieces between its
\* separators, trimmed
Pronunciations(list) ==
    LET pieces == split(list, Commas) IN [j \in 1..Len(pieces) |-> trim(pieces[j])]

\* C25: the pronunciations of every Entry and of every other-form in it are the
\* pronunciations of the matched pronunciation-list, one element for each, trimmed,
\* whichever of the two separators the list is written with; no element holds a
\* separator.
C25_OnePerPronunciation ==
    \A k \in 1..Len(outcomes) :
        outcomes[k].kind = "Entry" =>
            LET res == captures(entry_pattern, patch(entry_strings[k]))[1]
                forms == captures_iter(other_forms, Captures_name(res, "other_forms")[1])
                entry == outcomes[k].entry[1]
            IN  /\ entry.pronunciations
                       = Pronunciations(Captures_name(res, "pronunciation")[1])
                /\ \A j \in 1..Len(forms) :
                       entry.other_forms[j].pronunciations
                           = Pronunciations(Captures_name(forms[j], "of_pronunciation")[1])

\* C26: an operation that try_from converts to a colour operator has the stroking
\* object if its operator is "CS" or "SCN", and the nonstroking object if its
\* operator is "cs" or "scn".
C26_ColourObject ==
    (converted # None /\ converted[1].kind = "Ok" /\ converted[1].class = "Colour") =>
        converted[1].value.object
            = (IF operation[1].operator \in {"CS", "SCN"} THEN "Stroking" ELSE "Nonstroking")

====
